---- MODULE Spec2Model ----
(***************************************************************************)
(* Model of the credential validation engine of src/secure_auth.c (API in  *)
(* src/secure_auth.h): the process-wide g_auth_state, the rate limiter,    *)
(* the password-file lookup, the salted digest and the canary-guarded      *)
(* allocator.  Strings are sequences of byte values (0..255), so that the  *)
(* C string functions are modelled by what they do to the bytes.           *)
(***************************************************************************)
EXTENDS Integers, Sequences, FiniteSets, TLC

(* ------------------------------------------------------------------ *)
(* Program constants (src/secure_auth.h, src/secure_auth.c)            *)
(* ------------------------------------------------------------------ *)
DATA_SIZE == 1024
SALT_SIZE == 32
HASH_SIZE == 32
MAX_USERNAME_LENGTH == 32
MAX_PASSWORD_LENGTH == 64
MAX_LOGIN_ATTEMPTS == 5
LOGIN_TIMEOUT_SECONDS == 300
\* capacity of the rate-limit table: the literal 1000 of auth_initialize and
\* validate_rate_limit
RATE_LIMIT_CAPACITY == 1000
\* sizeof(RateLimit) on LP64 glibc: char[32], time_t (8), unsigned (4),
\* padding (4), pthread_mutex_t (40)
SIZEOF_RateLimit == 88
\* offsets of last_attempt and attempt_count inside one RateLimit
OFF_last_attempt == 32
OFF_attempt_count == 40
\* fgets(line, sizeof(line), db) with char line[256]
LINE_BUFFER == 256

(* ------------------------------------------------------------------ *)
(* Bounds of the model                                                 *)
(* ------------------------------------------------------------------ *)
\* the clock runs from 0 to MaxTime
MaxTime == 2
\* a build that overrides DATA_SIZE (the header allows -DDATA_SIZE=...) with a
\* value large enough for the rate-limit table
OverrideDataSize == 131072
\* number of validate calls kept in the history before the latest one
HistLen == 2
\* the longest password file of the store lookups, in lines
MaxFileLines == 2

\* a null pointer; a null char* among byte strings; a null AuthConfig*
NULL == "NULL"
NULLSTR == <<-1>>
NULLCONFIG == [null |-> TRUE]
\* a byte malloc left indeterminate, and a byte outside the allocation
UNINIT == -1
OOB == -2

AUTH_SUCCESS == "AUTH_SUCCESS"
AUTH_ERROR_NULL_POINTER == "AUTH_ERROR_NULL_POINTER"
AUTH_ERROR_INVALID_INPUT == "AUTH_ERROR_INVALID_INPUT"
AUTH_ERROR_FILE_ACCESS == "AUTH_ERROR_FILE_ACCESS"
AUTH_ERROR_CRYPTO == "AUTH_ERROR_CRYPTO"
AUTH_ERROR_BUFFER_OVERFLOW == "AUTH_ERROR_BUFFER_OVERFLOW"
AUTH_ERROR_AUTH_FAILED == "AUTH_ERROR_AUTH_FAILED"
AUTH_ERROR_RATE_LIMIT == "AUTH_ERROR_RATE_LIMIT"
AUTH_ERROR_MEMORY == "AUTH_ERROR_MEMORY"
AUTH_ERROR_INITIALIZATION == "AUTH_ERROR_INITIALIZATION"

(* ------------------------------------------------------------------ *)
(* Bytes and C strings                                                 *)
(* ------------------------------------------------------------------ *)
Min(a, b) == IF a < b THEN a ELSE b

\* n copies of byte b
Rep(b, n) == [i \in 1..n |-> b]


\* isalnum() in the C locale
isalnum(c) == (c >= 48 /\ c <= 57) \/ (c >= 65 /\ c <= 90) \/ (c >= 97 /\ c <= 122)

\* isspace() in the C locale
isspace(c) == c \in {32, 9, 10, 11, 12, 13}

\* value of a hexadecimal digit, -1 for any other byte
HexVal(c) ==
    IF c >= 48 /\ c <= 57 THEN c - 48
    ELSE IF c >= 97 /\ c <= 102 THEN c - 87
    ELSE IF c >= 65 /\ c <= 70 THEN c - 55
    ELSE -1

\* lowercase hexadecimal digit of a nibble
HexDigit(n) == IF n < 10 THEN 48 + n ELSE 87 + n

RECURSIVE HexEncode(_)
\* the store's encoding of a byte array: two lowercase hex digits per byte
HexEncode(bytes) ==
    IF bytes = <<>> THEN <<>>
    ELSE <<HexDigit(Head(bytes) \div 16), HexDigit(Head(bytes) % 16)>>
         \o HexEncode(Tail(bytes))

\* little-endian value of a sequence of bytes
RECURSIVE LittleEndian(_)
LittleEndian(bytes) ==
    IF bytes = <<>> THEN 0 ELSE Head(bytes) + 256 * LittleEndian(Tail(bytes))

\* the n little-endian bytes of the value v
RECURSIVE ToLittleEndian(_, _)
ToLittleEndian(v, n) ==
    IF n = 0 THEN <<>> ELSE <<v % 256>> \o ToLittleEndian(v \div 256, n - 1)

\* AUTH_MEMORY_CANARY 0xDEADBEEF as it lies in memory (little endian)
CanaryBytes == <<239, 190, 173, 222>>

(* ------------------------------------------------------------------ *)
(* Hasher: compute_hash                                                *)
(* ------------------------------------------------------------------ *)
RECURSIVE Absorb(_, _, _)
\* running state of the digest after the bytes of data, one byte at a time
Absorb(state, data, k) ==
    IF data = <<>> THEN state
    ELSE Absorb((state * 31 + Head(data) * k + 7) % 65521, Tail(data), k + 1)

\* The EVP SHA-256 digest of salt || password.  OpenSSL is outside the
\* repository: the digest is modelled by a deterministic mixing function of
\* every byte of the SALT_SIZE salt bytes followed by the strlen(password)
\* password bytes, spread over HASH_SIZE output bytes.
EVP_Digest(salt, password) ==
    LET st == Absorb(Absorb(1, SubSeq(salt, 1, SALT_SIZE), 1), password, SALT_SIZE + 1)
    IN  [i \in 1..HASH_SIZE |-> (st * i + (st \div 256) + i * i) % 256]

(* Inputs of the model: usernames, passwords, password files *)
\* one record line of the store: username:hex(salt):hex(hash)\n
RecordLine(username, salt, hash) ==
    username \o <<58>> \o HexEncode(salt) \o <<58>> \o HexEncode(hash) \o <<10>>

\* "al"
UserAl == <<97, 108>>
\* "bob;x": a username with a byte outside [A-Za-z0-9_-]
UserBad == <<98, 111, 98, 59, 120>>
\* MAX_USERNAME_LENGTH bytes: one more than the longest accepted username
UserLong == Rep(97, MAX_USERNAME_LENGTH)
Usernames == {NULLSTR, UserAl, UserBad, UserLong}

\* "pw", "no", and MAX_PASSWORD_LENGTH bytes
PwGood == <<112, 119>>
PwWrong == <<110, 111>>
PwLong == Rep(112, MAX_PASSWORD_LENGTH)
Passwords == {NULLSTR, PwGood, PwWrong, PwLong}

SaltA == [i \in 1..SALT_SIZE |-> (7 * i) % 256]
SaltB == [i \in 1..SALT_SIZE |-> (255 - i) % 256]

\* the contents of the password file, each as the lines fgets returns:
\* records for both usernames; a malformed first record for "al" before a
\* well-formed one (and no record for "bob;x")
StoreBoth ==
    << RecordLine(UserBad, SaltB, EVP_Digest(SaltB, PwGood)),
       RecordLine(UserAl, SaltA, EVP_Digest(SaltA, PwGood)) >>
StoreMasked ==
    << UserAl \o <<58, 48, 48, 10>>,
       RecordLine(UserAl, SaltA, EVP_Digest(SaltA, PwGood)) >>
\* the files by name
StoreFiles == {"both", "masked"}
StoreLines(name) ==
    IF name = "both" THEN StoreBoth
    ELSE IF name = "masked" THEN StoreMasked
    ELSE <<>>

\* the digests of the model's salts and passwords, computed once
KnownDigests ==
    [sp \in {SaltA, SaltB} \X {PwGood, PwWrong} |-> EVP_Digest(sp[1], sp[2])] @@ <<>>

\* EVP_Digest(salt, password), looked up when it is a known one
Digest(salt, password) ==
    IF <<salt, password>> \in DOMAIN KnownDigests
    THEN KnownDigests[<<salt, password>>]
    ELSE EVP_Digest(salt, password)

\* compute_hash(password, salt, hash): the result code and the digest written
\* to hash.  The EVP calls are taken to succeed on well-formed input.
compute_hash(password, salt) ==
    IF password = NULLSTR \/ salt = NULLSTR
    THEN [result |-> AUTH_ERROR_NULL_POINTER, hash |-> <<>>]
    ELSE [result |-> AUTH_SUCCESS, hash |-> Digest(salt, password)]

\* a comparison over zero bytes: never a difference
CRYPTO_memcmp_zero_length(a, b) == \E i \in 1..0 : a[i] # b[i]

\* CRYPTO_memcmp(a, b, HASH_SIZE) != 0
CRYPTO_memcmp_differs(a, b) == \E i \in 1..HASH_SIZE : a[i] # b[i]

(* ------------------------------------------------------------------ *)
(* CredentialStore: read_password_file                                 *)
(* ------------------------------------------------------------------ *)
RECURSIVE SkipSpace(_, _)
\* index of the first byte of s at or after k that is not white space
SkipSpace(s, k) ==
    IF k <= Len(s) /\ isspace(s[k]) THEN SkipSpace(s, k + 1) ELSE k

\* sscanf(s + k - 1, "%2hhx", &b) on the string s: the byte stored, or -1
\* when the conversion fails.  Leading white space is skipped; a sign and a
\* "0x" prefix count towards the field width of 2 (glibc: "0x" alone
\* converts to 0).
sscanf_2hhx(s, k) ==
    LET q == SkipSpace(s, k)
        d(j) == IF q + j - 1 <= Len(s) THEN HexVal(s[q + j - 1]) ELSE -1
    IN  IF q > Len(s) THEN -1
        ELSE IF s[q] = 43 THEN d(2)
        ELSE IF s[q] = 45 THEN (IF d(2) < 0 THEN -1 ELSE (256 - d(2)) % 256)
        ELSE IF s[q] = 48 /\ q + 1 <= Len(s) /\ s[q + 1] \in {120, 88} THEN 0
        ELSE IF d(1) < 0 THEN -1
        ELSE IF d(2) < 0 THEN d(1)
        ELSE 16 * d(1) + d(2)

RECURSIVE ScanSet(_, _)
\* the bytes "%31[^:]" takes: the longest prefix without ':' of at most n bytes
ScanSet(s, n) ==
    IF n = 0 \/ s = <<>> \/ Head(s) = 58 THEN <<>>
    ELSE <<Head(s)>> \o ScanSet(Tail(s), n - 1)

\* index of the first ':' of the line (strchr), 0 when there is none
RECURSIVE strchr_colon(_, _)
strchr_colon(line, k) ==
    IF k > Len(line) THEN 0
    ELSE IF line[k] = 58 THEN k
    ELSE strchr_colon(line, k + 1)

\* the loop "for i < n: sscanf(pos + 2*i, "%2hhx", &out[i])" over the text
\* starting at index pos of line: the bytes, or <<-1>> at the first failure
ParseHexField(line, pos, n) ==
    LET b == [i \in 1..n |-> sscanf_2hhx(line, pos + 2 * (i - 1))]
    IN  IF \E i \in 1..n : b[i] < 0 THEN <<-1>> ELSE b

\* The body of the while loop for one line read by fgets: "next" when the
\* username field does not match, otherwise the result that ends the scan.
ScanLine(line, username) ==
    LET stored == ScanSet(line, MAX_USERNAME_LENGTH - 1)
        colon  == strchr_colon(line, 1)
    IN  IF stored = <<>> \/ stored # username THEN [kind |-> "next"]
        ELSE IF colon = 0 \/ Len(line) - colon + 1 < 2 * SALT_SIZE + 2 * HASH_SIZE + 2
        THEN [kind |-> "done", result |-> AUTH_ERROR_AUTH_FAILED]
        ELSE LET salt == ParseHexField(line, colon + 1, SALT_SIZE)
                 hash == ParseHexField(line, colon + 1 + 2 * SALT_SIZE + 1, HASH_SIZE)
             IN  IF salt = <<-1>> \/ hash = <<-1>>
                 THEN [kind |-> "done", result |-> AUTH_ERROR_AUTH_FAILED]
                 ELSE [kind |-> "done", result |-> AUTH_SUCCESS,
                       salt |-> salt, hash |-> hash]

RECURSIVE ScanLines(_, _)
ScanLines(lines, username) ==
    IF lines = <<>> THEN [kind |-> "done", result |-> AUTH_ERROR_AUTH_FAILED]
    ELSE LET r == ScanLine(Head(lines), username)
         IN  IF r.kind = "next" THEN ScanLines(Tail(lines), username) ELSE r

\* the scans of the model's files for the model's usernames, computed once
KnownScans ==
    [lu \in {StoreBoth, StoreMasked} \X {UserAl, UserBad} |-> ScanLines(lu[1], lu[2])]
        @@ <<>>

\* ScanLines(lines, username), looked up when it is a known one
Scan(lines, username) ==
    IF <<lines, username>> \in DOMAIN KnownScans
    THEN KnownScans[<<lines, username>>]
    ELSE ScanLines(lines, username)

\* read_password_file(username, &hash_data): openable says whether fopen of
\* config.password_db_path succeeds, lines are the file's lines as fgets
\* returns them.
read_password_file(username, openable, lines) ==
    IF ~openable THEN [kind |-> "done", result |-> AUTH_ERROR_FILE_ACCESS]
    ELSE Scan(lines, username)

(* ------------------------------------------------------------------ *)
(* SecureBuffer: secure_malloc / secure_free                           *)
(* ------------------------------------------------------------------ *)
\* secure_malloc(size) in a build whose DATA_SIZE is maxSize: NULL, or "PTR"
\* for a block of size bytes between two canaries.  The bytes are those malloc
\* returns: indeterminate.
secure_malloc(size, maxSize, mallocOk) ==
    IF size = 0 \/ size > maxSize THEN NULL
    ELSE IF ~mallocOk THEN NULL
    ELSE "PTR"

\* the byte at offset k (from the pointer secure_malloc returned) of a block
\* of size bytes whose first Len(prefix) bytes were written: the bytes after
\* the prefix are indeterminate, the end canary follows the block
BlockByte(prefix, size, k) ==
    IF k < Len(prefix) THEN prefix[k + 1]
    ELSE IF k < size THEN UNINIT
    ELSE IF k < size + 4 THEN CanaryBytes[k - size + 1]
    ELSE OOB

\* What the build can do on undefined behaviour (a read of indeterminate or
\* out-of-bounds memory): pass the check, fail it, or fault.
UndefinedOutcomes == {"ok", "abort", "crash"}

\* the byte at offset k of the rate-limit table: the fields written by
\* validate_rate_limit; padding, the locks and unused entries are indeterminate
TableByte(entries, k) ==
    LET e   == k \div SIZEOF_RateLimit
        off == k % SIZEOF_RateLimit
        size == SIZEOF_RateLimit * RATE_LIMIT_CAPACITY
    IN  IF k >= size THEN BlockByte(<<>>, size, k)
        ELSE IF e >= Len(entries) THEN UNINIT
        ELSE IF off < MAX_USERNAME_LENGTH
        THEN (IF off < Len(entries[e + 1].username)
              THEN entries[e + 1].username[off + 1] ELSE 0)
        ELSE IF off >= OFF_last_attempt /\ off < OFF_last_attempt + 8
        THEN (IF entries[e + 1].last_attempt = UNINIT THEN UNINIT
              ELSE ToLittleEndian(entries[e + 1].last_attempt, 8)[off - OFF_last_attempt + 1])
        ELSE IF off >= OFF_attempt_count /\ off < OFF_attempt_count + 4
        THEN ToLittleEndian(entries[e + 1].attempt_count, 4)[off - OFF_attempt_count + 1]
        ELSE UNINIT

\* the allocation secure_malloc makes for size bytes, from the pointer malloc
\* returned on: canary, the region (what malloc left there: fill), canary
SecureBlock(size, fill) == CanaryBytes \o Rep(fill, size) \o CanaryBytes

\* the memory behind a pointer secure_malloc returned: a block with its
\* written prefix, the rate-limit table with its entries, or an allocation
\* given byte by byte
Block(prefix, size) == [kind |-> "block", prefix |-> prefix, size |-> size]
Table(entries) == [kind |-> "table", entries |-> entries]
Bytes(bytes) == [kind |-> "bytes", bytes |-> bytes]
\* the byte at offset k from the pointer secure_malloc returned (the start
\* canary is at offsets -4..-1)
MemByte(mem, k) ==
    IF mem.kind = "bytes"
    THEN (IF k + 5 \in 1..Len(mem.bytes) THEN mem.bytes[k + 5] ELSE OOB)
    ELSE IF k < 0 THEN (IF k >= -4 THEN CanaryBytes[k + 5] ELSE OOB)
    ELSE IF mem.kind = "table" THEN TableByte(mem.entries, k)
    ELSE BlockByte(mem.prefix, mem.size, k)

\* *(size_t*)((char*)real_ptr + sizeof(size_t)): the eight bytes at ptr + 4,
\* which secure_free takes for the size of the block; -1 when they are
\* indeterminate, out of bounds, or a value beyond 2^24
StoredSize(mem) ==
    LET word == [k \in 1..8 |-> MemByte(mem, 4 + k - 1)]
    IN  IF \E k \in 1..8 : word[k] < 0 THEN -1
        ELSE IF \E k \in 4..8 : word[k] # 0 THEN -1
        ELSE LittleEndian(SubSeq(word, 1, 3))

\* secure_free(ptr) on the memory mem.  It reads a size_t at
\* real_ptr + sizeof(size_t), i.e. at ptr + 4, takes it for the block's size,
\* and compares the uint32 at real_ptr and the one at ptr + that value with
\* the canary: "abort" on a mismatch, otherwise the block is cleansed and
\* freed ("ok").
secure_free(mem) ==
    LET word == [k \in 1..8 |-> MemByte(mem, 4 + k - 1)]
        head == [k \in 1..4 |-> MemByte(mem, k - 5)]
        n    == StoredSize(mem)
        tail == [k \in 1..4 |-> MemByte(mem, n + k - 1)]
    IN  IF \E k \in 1..8 : word[k] = OOB THEN UndefinedOutcomes
        ELSE IF head # CanaryBytes THEN {"abort"}
        ELSE IF n < 0 THEN UndefinedOutcomes
        ELSE IF \E k \in 1..4 : tail[k] < 0 THEN UndefinedOutcomes
        ELSE IF tail = CanaryBytes THEN {"ok"}
        ELSE {"abort"}

\* OPENSSL_cleanse(real_ptr, n) on an allocation given byte by byte: its
\* first n bytes are zeroed
OPENSSL_cleanse(bytes, n) == [k \in 1..Len(bytes) |-> IF k <= n THEN 0 ELSE bytes[k]]

(* ------------------------------------------------------------------ *)
(* RateLimiter: validate_rate_limit                                    *)
(* ------------------------------------------------------------------ *)
\* index of the first entry whose username equals username, 0 if none
FindEntry(entries, username, i) ==
    LET hits == {k \in i..Len(entries) : entries[k].username = username}
    IN  IF hits = {} THEN 0
        ELSE CHOOSE k \in hits : \A j \in hits : k <= j

\* the decision with the count compared by > instead of >=
Throttled_off_by_one(e, t, cfg) ==
    /\ t - e.last_attempt < cfg.login_timeout
    /\ e.attempt_count > cfg.max_login_attempts

\* the decision without the time check
Throttled_ignoring_time(e, t, cfg) ==
    e.attempt_count >= cfg.max_login_attempts

\* the decision on entry e at time t: TRUE when the call is throttled
Throttled(e, t, cfg) ==
    /\ t - e.last_attempt < cfg.login_timeout
    /\ e.attempt_count >= cfg.max_login_attempts

\* validate_rate_limit rejecting a new username when the table is full
validate_rate_limit_rejects_when_full(entries, username, t, cfg) ==
    LET found  == FindEntry(entries, username, 1)
        create == found = 0 /\ Len(entries) < RATE_LIMIT_CAPACITY
        tbl    == IF create
                  THEN Append(entries, [username |-> username, last_attempt |-> UNINIT,
                                        attempt_count |-> 0])
                  ELSE entries
        i      == IF create THEN Len(tbl) ELSE found
        allow  == [result |-> AUTH_SUCCESS,
                   entries |-> [tbl EXCEPT ![i].attempt_count = @ + 1,
                                           ![i].last_attempt = t]]
        deny   == [result |-> AUTH_ERROR_RATE_LIMIT, entries |-> tbl]
    IN  IF i = 0 THEN {[result |-> AUTH_ERROR_RATE_LIMIT, entries |-> entries]}
        ELSE IF tbl[i].last_attempt = UNINIT
        THEN (IF tbl[i].attempt_count >= cfg.max_login_attempts
              THEN {allow, deny} ELSE {allow})
        ELSE IF Throttled(tbl[i], t, cfg) THEN {deny}
        ELSE {allow}

\* validate_rate_limit with a throttled call restarting the window
validate_rate_limit_restarting_window(entries, username, t, cfg) ==
    LET found  == FindEntry(entries, username, 1)
        create == found = 0 /\ Len(entries) < RATE_LIMIT_CAPACITY
        tbl    == IF create
                  THEN Append(entries, [username |-> username, last_attempt |-> UNINIT,
                                        attempt_count |-> 0])
                  ELSE entries
        i      == IF create THEN Len(tbl) ELSE found
        allow  == [result |-> AUTH_SUCCESS,
                   entries |-> [tbl EXCEPT ![i].attempt_count = @ + 1,
                                           ![i].last_attempt = t]]
        deny   == [result |-> AUTH_ERROR_RATE_LIMIT,
                   entries |-> [tbl EXCEPT ![i].last_attempt = t]]
    IN  IF i = 0 THEN {[result |-> AUTH_SUCCESS, entries |-> entries]}
        ELSE IF tbl[i].last_attempt = UNINIT
        THEN (IF tbl[i].attempt_count >= cfg.max_login_attempts
              THEN {allow, deny} ELSE {allow})
        ELSE IF Throttled(tbl[i], t, cfg) THEN {deny}
        ELSE {allow}

\* validate_rate_limit without the search for an existing entry
validate_rate_limit_without_find(entries, username, t, cfg) ==
    LET create == Len(entries) < RATE_LIMIT_CAPACITY
        tbl    == IF create
                  THEN Append(entries, [username |-> username, last_attempt |-> UNINIT,
                                        attempt_count |-> 0])
                  ELSE entries
        i      == IF create THEN Len(tbl) ELSE 0
        allow  == [result |-> AUTH_SUCCESS,
                   entries |-> [tbl EXCEPT ![i].attempt_count = @ + 1,
                                           ![i].last_attempt = t]]
    IN  IF i = 0 THEN {[result |-> AUTH_SUCCESS, entries |-> entries]}
        ELSE {allow}

\* validate_rate_limit(username) at time t on the table entries: the possible
\* results with the table they leave.  A new entry's last_attempt is not
\* written before it is read: the comparison with it can go either way.
validate_rate_limit(entries, username, t, cfg) ==
    LET found  == FindEntry(entries, username, 1)
        create == found = 0 /\ Len(entries) < RATE_LIMIT_CAPACITY
        tbl    == IF create
                  THEN Append(entries, [username |-> SubSeq(username, 1,
                                            Min(Len(username), MAX_USERNAME_LENGTH - 1)),
                                        last_attempt |-> UNINIT,
                                        attempt_count |-> 0])
                  ELSE entries
        i      == IF create THEN Len(tbl) ELSE found
        allow  == [result |-> AUTH_SUCCESS,
                   entries |-> [tbl EXCEPT ![i].attempt_count = @ + 1,
                                           ![i].last_attempt = t]]
        deny   == [result |-> AUTH_ERROR_RATE_LIMIT, entries |-> tbl]
    IN  IF i = 0 THEN {[result |-> AUTH_SUCCESS, entries |-> entries]}
        ELSE IF tbl[i].last_attempt = UNINIT
        THEN (IF tbl[i].attempt_count >= cfg.max_login_attempts
              THEN {allow, deny} ELSE {allow})
        ELSE IF Throttled(tbl[i], t, cfg) THEN {deny}
        ELSE {allow}

(* ------------------------------------------------------------------ *)
(* AuthEngine: auth_validate_user                                      *)
(* ------------------------------------------------------------------ *)
\* auth_validate_user with the store read before the admission check
auth_validate_user_lookup_first(isInit, entries, cfg, username, password, t, openable, lines) ==
    IF ~isInit
    THEN {[result |-> AUTH_ERROR_INITIALIZATION, entries |-> entries, steps |-> <<>>]}
    ELSE IF username = NULLSTR \/ password = NULLSTR
    THEN {[result |-> AUTH_ERROR_NULL_POINTER, entries |-> entries, steps |-> <<>>]}
    ELSE IF Len(username) >= MAX_USERNAME_LENGTH \/ Len(password) >= MAX_PASSWORD_LENGTH
    THEN {[result |-> AUTH_ERROR_INVALID_INPUT, entries |-> entries, steps |-> <<>>]}
    ELSE
      LET rec == read_password_file(username, openable, lines)
      IN  IF rec.result # AUTH_SUCCESS
          THEN {[result |-> rec.result, entries |-> entries, steps |-> <<"lookup">>]}
          ELSE
            { IF rl.result # AUTH_SUCCESS
              THEN [result |-> rl.result, entries |-> rl.entries,
                    steps |-> <<"lookup", "admit">>]
              ELSE [result |-> IF CRYPTO_memcmp_differs(
                                    compute_hash(password, rec.salt).hash, rec.hash)
                               THEN AUTH_ERROR_AUTH_FAILED ELSE AUTH_SUCCESS,
                    entries |-> rl.entries,
                    steps |-> <<"lookup", "admit", "hash", "compare">>]
              : rl \in validate_rate_limit(entries, username, t, cfg) }

\* auth_validate_user with the lengths compared by > instead of >=
auth_validate_user_length_off_by_one(isInit, entries, cfg, username, password, t, openable, lines) ==
    IF ~isInit
    THEN {[result |-> AUTH_ERROR_INITIALIZATION, entries |-> entries, steps |-> <<>>]}
    ELSE IF username = NULLSTR \/ password = NULLSTR
    THEN {[result |-> AUTH_ERROR_NULL_POINTER, entries |-> entries, steps |-> <<>>]}
    ELSE IF Len(username) > MAX_USERNAME_LENGTH \/ Len(password) > MAX_PASSWORD_LENGTH
    THEN {[result |-> AUTH_ERROR_INVALID_INPUT, entries |-> entries, steps |-> <<>>]}
    ELSE
      { IF rl.result # AUTH_SUCCESS
        THEN [result |-> rl.result, entries |-> rl.entries, steps |-> <<"admit">>]
        ELSE
          LET rec == read_password_file(username, openable, lines)
          IN  IF rec.result # AUTH_SUCCESS
              THEN [result |-> rec.result, entries |-> rl.entries,
                    steps |-> <<"admit", "lookup">>]
              ELSE [result |-> IF CRYPTO_memcmp_differs(
                                    compute_hash(password, rec.salt).hash, rec.hash)
                               THEN AUTH_ERROR_AUTH_FAILED ELSE AUTH_SUCCESS,
                    entries |-> rl.entries,
                    steps |-> <<"admit", "lookup", "hash", "compare">>]
        : rl \in validate_rate_limit(entries, username, t, cfg) }

\* auth_validate_user(username, password) at time t: the possible outcomes,
\* each with the result code, the table it leaves and the steps it took
\* ("admit", "lookup", "hash", "compare") in order.
auth_validate_user(isInit, entries, cfg, username, password, t, openable, lines) ==
    IF ~isInit
    THEN {[result |-> AUTH_ERROR_INITIALIZATION, entries |-> entries, steps |-> <<>>]}
    ELSE IF username = NULLSTR \/ password = NULLSTR
    THEN {[result |-> AUTH_ERROR_NULL_POINTER, entries |-> entries, steps |-> <<>>]}
    ELSE IF Len(username) >= MAX_USERNAME_LENGTH \/ Len(password) >= MAX_PASSWORD_LENGTH
    THEN {[result |-> AUTH_ERROR_INVALID_INPUT, entries |-> entries, steps |-> <<>>]}
    ELSE
      { IF rl.result # AUTH_SUCCESS
        THEN [result |-> rl.result, entries |-> rl.entries, steps |-> <<"admit">>]
        ELSE
          LET rec == read_password_file(username, openable, lines)
          IN  IF rec.result # AUTH_SUCCESS
              THEN [result |-> rec.result, entries |-> rl.entries,
                    steps |-> <<"admit", "lookup">>]
              ELSE
                LET h == compute_hash(password, rec.salt)
                IN  IF h.result # AUTH_SUCCESS
                    THEN [result |-> h.result, entries |-> rl.entries,
                          steps |-> <<"admit", "lookup", "hash">>]
                    ELSE [result |-> IF CRYPTO_memcmp_differs(h.hash, rec.hash)
                                     THEN AUTH_ERROR_AUTH_FAILED ELSE AUTH_SUCCESS,
                          entries |-> rl.entries,
                          steps |-> <<"admit", "lookup", "hash", "compare">>]
        : rl \in validate_rate_limit(entries, username, t, cfg) }

(* ------------------------------------------------------------------ *)
(* AuthEngine: lifecycle and the other public operations               *)
(* ------------------------------------------------------------------ *)
DefaultPath == "/etc/secure_passwd"

\* g_auth_state.config of the zero-initialised (or memset) global state
ZeroConfig ==
    [password_db_path |-> NULL, max_login_attempts |-> 0, login_timeout |-> 0,
     enable_security_checks |-> 0, log_callback |-> NULL]

\* default_config
default_config ==
    [password_db_path |-> DefaultPath, max_login_attempts |-> MAX_LOGIN_ATTEMPTS,
     login_timeout |-> LOGIN_TIMEOUT_SECONDS, enable_security_checks |-> 1,
     log_callback |-> NULL]

\* auth_initialize without the check of the initialized flag
auth_initialize_unguarded(st, config, maxSize, mallocOk) ==
    LET installed == IF config # NULLCONFIG THEN config ELSE default_config
        table == secure_malloc(SIZEOF_RateLimit * RATE_LIMIT_CAPACITY, maxSize, mallocOk)
    IN  IF table = NULL
        THEN [result |-> AUTH_ERROR_MEMORY,
              st |-> [initialized |-> st.initialized, config |-> installed,
                      rate_limits |-> NULL]]
        ELSE [result |-> AUTH_SUCCESS,
              st |-> [initialized |-> TRUE, config |-> installed,
                      rate_limits |-> table]]

\* auth_initialize with the flag set before the table is allocated
auth_initialize_flag_first(st, config, maxSize, mallocOk) ==
    IF st.initialized
    THEN [result |-> AUTH_ERROR_INITIALIZATION, st |-> st]
    ELSE LET installed == IF config # NULLCONFIG THEN config ELSE default_config
             table == secure_malloc(SIZEOF_RateLimit * RATE_LIMIT_CAPACITY, maxSize, mallocOk)
         IN  [result |-> IF table = NULL THEN AUTH_ERROR_MEMORY ELSE AUTH_SUCCESS,
              st |-> [initialized |-> TRUE, config |-> installed,
                      rate_limits |-> table]]

\* auth_initialize(config) on the state st = [initialized, config,
\* rate_limits] in a build whose DATA_SIZE is maxSize: the result and the
\* state it leaves.
auth_initialize(st, config, maxSize, mallocOk) ==
    IF st.initialized
    THEN [result |-> AUTH_ERROR_INITIALIZATION, st |-> st]
    ELSE LET installed == IF config # NULLCONFIG THEN config ELSE default_config
             table == secure_malloc(SIZEOF_RateLimit * RATE_LIMIT_CAPACITY, maxSize, mallocOk)
         IN  IF table = NULL
             THEN [result |-> AUTH_ERROR_MEMORY,
                   st |-> [initialized |-> FALSE, config |-> installed,
                           rate_limits |-> NULL]]
             ELSE [result |-> AUTH_SUCCESS,
                   st |-> [initialized |-> TRUE, config |-> installed,
                           rate_limits |-> table]]

\* auth_cleanup() on the state st with the table entries: the possible
\* outcomes, each with how the process goes on ("running", or "abort" /
\* "crash" out of secure_free) and the state and table left.
auth_cleanup(st, entries) ==
    IF ~st.initialized
    THEN {[proc |-> "running", st |-> st, entries |-> entries, freed |-> 0]}
    ELSE { IF o = "ok"
           THEN [proc |-> "running",
                 st |-> [initialized |-> FALSE, config |-> ZeroConfig,
                         rate_limits |-> NULL],
                 entries |-> <<>>, freed |-> 1]
           ELSE [proc |-> o, st |-> st, entries |-> entries, freed |-> 0]
           : o \in (IF st.rate_limits = NULL THEN {"ok"}
                    ELSE secure_free(Table(entries))) }

\* auth_process_input with the null check before the initialized check
auth_process_input_null_first(isInit, input, max_length, maxSize, mallocOk) ==
    IF input = NULLSTR THEN {[result |-> AUTH_ERROR_NULL_POINTER, proc |-> "running"]}
    ELSE IF ~isInit THEN {[result |-> AUTH_ERROR_INITIALIZATION, proc |-> "running"]}
    ELSE IF Len(input) >= max_length
    THEN {[result |-> AUTH_ERROR_BUFFER_OVERFLOW, proc |-> "running"]}
    ELSE IF secure_malloc(max_length, maxSize, mallocOk) = NULL
    THEN {[result |-> AUTH_ERROR_MEMORY, proc |-> "running"]}
    ELSE {[result |-> AUTH_SUCCESS, proc |-> "running"]}

\* auth_process_input(input, max_length): the possible outcomes, each with the
\* result code (NULL when the call does not return) and how the process goes on
auth_process_input(isInit, input, max_length, maxSize, mallocOk) ==
    IF ~isInit THEN {[result |-> AUTH_ERROR_INITIALIZATION, proc |-> "running"]}
    ELSE IF input = NULLSTR THEN {[result |-> AUTH_ERROR_NULL_POINTER, proc |-> "running"]}
    ELSE IF Len(input) >= max_length
    THEN {[result |-> AUTH_ERROR_BUFFER_OVERFLOW, proc |-> "running"]}
    ELSE IF secure_malloc(max_length, maxSize, mallocOk) = NULL
    THEN {[result |-> AUTH_ERROR_MEMORY, proc |-> "running"]}
    ELSE LET copied == input \o Rep(0, max_length - 1 - Len(input))
         IN  { IF o = "ok" THEN [result |-> AUTH_SUCCESS, proc |-> "running"]
               ELSE [result |-> NULL, proc |-> o]
               : o \in secure_free(Block(copied, max_length)) }

RECURSIVE Flatten(_)
\* the bytes of a file given as its lines
Flatten(lines) == IF lines = <<>> THEN <<>> ELSE Head(lines) \o Flatten(Tail(lines))

\* auth_handle_file(filename): content is the file's bytes, or NULLSTR when
\* fopen fails; readError is ferror(fp) after the fread
auth_handle_file(isInit, filename, content, maxSize, mallocOk, readError) ==
    IF ~isInit THEN {[result |-> AUTH_ERROR_INITIALIZATION, proc |-> "running"]}
    ELSE IF filename = NULL THEN {[result |-> AUTH_ERROR_NULL_POINTER, proc |-> "running"]}
    ELSE IF content = NULLSTR THEN {[result |-> AUTH_ERROR_FILE_ACCESS, proc |-> "running"]}
    ELSE IF secure_malloc(maxSize, maxSize, mallocOk) = NULL
    THEN {[result |-> AUTH_ERROR_MEMORY, proc |-> "running"]}
    ELSE LET read == IF readError THEN <<>>
                     ELSE SubSeq(content, 1, Min(Len(content), maxSize - 1))
         IN  { IF o = "ok"
               THEN [result |-> IF readError THEN AUTH_ERROR_FILE_ACCESS ELSE AUTH_SUCCESS,
                     proc |-> "running"]
               ELSE [result |-> NULL, proc |-> o]
               : o \in secure_free(Block(read, maxSize)) }

(* ------------------------------------------------------------------ *)
(* Inputs of the model                                                 *)
(* ------------------------------------------------------------------ *)
\* configurations passed to auth_initialize: none (the defaults) or a custom one
CustomConfig(n, w) ==
    [password_db_path |-> DefaultPath, max_login_attempts |-> n,
     login_timeout |-> w, enable_security_checks |-> 0, log_callback |-> NULL]
Configs == {NULLCONFIG, CustomConfig(1, 2), CustomConfig(2, 2)}

\* arguments of auth_process_input: "abc", and five bytes whose last is 16
ProcessInputs == {NULLSTR, <<97, 98, 99>>, <<97, 97, 97, 97, 16>>}
ProcessLengths == {3, 16, OverrideDataSize + 1}

\* arguments of auth_handle_file
MissingPath == "/nonexistent"
Filenames == {NULL, DefaultPath, MissingPath}

(* ------------------------------------------------------------------ *)
(* Caller threads and pthread mutexes                                  *)
(* ------------------------------------------------------------------ *)
\* the caller threads, and the usernames they validate
Threads == {1, 2}
ThreadUsers == {UserAl, UserBad}

\* a pthread_mutex_t: "zero" (static or memset storage, never initialized),
\* "free", "held" by owner, or "destroyed"
Mutex(st, owner) == [st |-> st, owner |-> owner]
ZeroMutex == Mutex("zero", 0)
FreshMutex == Mutex("free", 0)
DeadMutex == Mutex("destroyed", 0)

\* a mutex that was never initialized or has been destroyed
LockDead(m) == m.st \in {"zero", "destroyed"}

\* a lock operation that never waits
pthread_mutex_lock_never_waits(m, t) == TRUE

\* whether pthread_mutex_lock(m) by thread t returns: it waits while the
\* mutex is held
pthread_mutex_lock_returns(m, t) == m.st # "held"

\* the locals of a thread that is making no call
NoLocals ==
    [op |-> "none", username |-> NULLSTR, cfg |-> NULLCONFIG, mallocOk |-> TRUE,
     limit |-> 0, count |-> 0, result |-> NULL]

NoAdmits == [u \in ThreadUsers |-> [total |-> 0, tick |-> 0]]

(* ------------------------------------------------------------------ *)
(* State                                                               *)
(* ------------------------------------------------------------------ *)
VARIABLES
    proc,         \* "running", or "abort" / "crash" once the process has died,
                  \* or "undefined" once a thread's behaviour was undefined
    dataSize,     \* DATA_SIZE of the build
    initialized,  \* g_auth_state.initialized
    config,       \* g_auth_state.config
    rate_limits,  \* g_auth_state.rate_limits: NULL or the allocated table
    entries,      \* the first rate_limit_count entries of the table
    now,          \* time(NULL)
    last,         \* the public call that has just returned: arguments, result,
                  \* the engine state before it, what it read of the store,
                  \* what went wrong in the C library during it
    hist,         \* the latest validate calls for the observed username that
                  \* passed the argument checks: time, and whether counted
    winAdmits,    \* calls admitted for it since its latest window start
    pc,           \* each caller thread's position in the call it is making
    loc,          \* each caller thread's call: operation, arguments, locals
    rate_limit_lock,  \* g_auth_state.rate_limit_lock
    entry_locks,  \* the lock of each of the first rate_limit_count entries
    freed,        \* rate_limits points to a table secure_free has released
    hazard,       \* the first access a thread made to released memory or to
                  \* a lock that is not initialized, "none" when there was none
    installs,     \* initialize calls that returned success since the engine
                  \* was last torn down
    allocs,       \* tables allocated since the engine was last torn down
    admits,       \* per username: the calls the rate limiter admitted since
                  \* the table was allocated, and at the current clock time
    heap          \* the allocation a caller of secure_malloc holds, byte by
                  \* byte from the pointer malloc returned

\* no allocation: the pointer is NULL
NoBlock == [st |-> "none", size |-> 0, bytes |-> <<>>, written |-> FALSE, cleansed |-> 0]

\* the state of the callers' threads, which the single-caller operations of
\* Spec and SpecLimiter leave alone
threadVars == <<pc, loc, rate_limit_lock, entry_locks, freed, hazard,
                installs, allocs, admits>>

vars == <<proc, dataSize, initialized, config, rate_limits, entries, now,
          last, hist, winAdmits, threadVars, heap>>

rate_limit_count == Len(entries)

EngineState == [initialized |-> initialized, config |-> config,
                rate_limits |-> rate_limits]

Snapshot == [initialized |-> initialized, config |-> config,
             rate_limits |-> rate_limits, entries |-> entries]

Call(op, a1, a2, result, steps, openable, store) ==
    [op |-> op, a1 |-> a1, a2 |-> a2, result |-> result, pre |-> Snapshot,
     steps |-> steps, openable |-> openable, store |-> store, fault |-> "none"]

NoCall ==
    [op |-> "none", a1 |-> NULL, a2 |-> NULL, result |-> NULL,
     pre |-> [initialized |-> FALSE, config |-> ZeroConfig,
              rate_limits |-> NULL, entries |-> <<>>],
     steps |-> <<>>, openable |-> TRUE, store |-> "none", fault |-> "none"]

Init ==
    /\ proc = "running"
    /\ dataSize \in {DATA_SIZE, OverrideDataSize}
    /\ initialized = FALSE
    /\ config = ZeroConfig
    /\ rate_limits = NULL
    /\ entries = <<>>
    /\ now = 0
    /\ last = NoCall
    /\ hist = <<>>
    /\ winAdmits = 0
    /\ pc = [t \in Threads |-> "idle"]
    /\ loc = [t \in Threads |-> NoLocals]
    /\ rate_limit_lock = ZeroMutex
    /\ entry_locks = <<>>
    /\ freed = FALSE
    /\ hazard = "none"
    /\ installs = 0
    /\ allocs = 0
    /\ admits = NoAdmits
    /\ heap = NoBlock

(* ------------------------------------------------------------------ *)
(* Actions                                                             *)
(* ------------------------------------------------------------------ *)
\* the last n elements of s
LastN(s, n) == IF Len(s) <= n THEN s ELSE SubSeq(s, Len(s) - n + 1, Len(s))

\* auth_initialize(c) for a configuration of cs
InitializeWith(cs) ==
    /\ proc = "running"
    /\ \E c \in cs, mallocOk \in BOOLEAN :
         LET r == auth_initialize(EngineState, c, dataSize, mallocOk)
         IN  /\ initialized' = r.st.initialized
             /\ config' = r.st.config
             /\ rate_limits' = r.st.rate_limits
             /\ last' = Call("auth_initialize", c, mallocOk, r.result, <<>>, TRUE, "none")
    /\ UNCHANGED <<proc, dataSize, entries, now, hist, winAdmits>>
    /\ UNCHANGED <<threadVars, heap>>

Initialize == InitializeWith(Configs)

Cleanup ==
    /\ proc = "running"
    /\ \E o \in auth_cleanup(EngineState, entries) :
         /\ proc' = o.proc
         /\ initialized' = o.st.initialized
         /\ config' = o.st.config
         /\ rate_limits' = o.st.rate_limits
         /\ entries' = o.entries
         /\ last' = Call("auth_cleanup", NULL, NULL, o.proc, <<>>, TRUE, "none")
         /\ hist' = IF o.freed = 1 THEN <<>> ELSE hist
         /\ winAdmits' = IF o.freed = 1 THEN 0 ELSE winAdmits
    /\ UNCHANGED <<dataSize, now>>
    /\ UNCHANGED <<threadVars, heap>>

\* whether the call that found the table pre and left it post was admitted
\* into the entry of u
Counted(pre, post, u) ==
    LET i == FindEntry(post, u, 1)
        j == FindEntry(pre, u, 1)
    IN  /\ i # 0
        /\ post[i].attempt_count = (IF j = 0 THEN 0 ELSE pre[j].attempt_count) + 1

\* whether a call for u at time t finds no entry, or one whose window has elapsed
WindowStart(pre, u, t, cfg) ==
    LET j == FindEntry(pre, u, 1)
    IN  \/ j = 0
        \/ pre[j].last_attempt = UNINIT
        \/ t - pre[j].last_attempt >= cfg.login_timeout

\* what a call finds at config.password_db_path: a file that cannot be
\* opened, or one of files
StoreStates(files) ==
    {[openable |-> FALSE, file |-> "none"]}
        \cup {[openable |-> TRUE, file |-> f] : f \in files}

\* auth_validate_user(u, p) for u of us and p of ps against a password file
\* of files that opens or not.  With observed, the calls that reach the
\* rate limiter are recorded in hist and winAdmits.
ValidateWith(us, ps, files, observed) ==
    /\ proc = "running"
    /\ \E u \in us, p \in ps, db \in StoreStates(files) :
         \E o \in auth_validate_user(initialized, entries, config, u, p, now,
                                     db.openable, StoreLines(db.file)) :
           LET read == \E k \in 1..Len(o.steps) : o.steps[k] = "lookup"
           IN
           /\ entries' = o.entries
           /\ last' = Call("auth_validate_user", u, p, o.result, o.steps,
                           IF read THEN db.openable ELSE TRUE,
                           IF read THEN db.file ELSE "none")
           /\ hist' = IF observed /\ o.steps # <<>>
                      THEN LastN(Append(hist, [time |-> now,
                                               counted |-> Counted(entries, o.entries, u)]),
                                 HistLen + 1)
                      ELSE hist
           /\ winAdmits' = IF observed /\ u # NULLSTR /\ Counted(entries, o.entries, u)
                           THEN (IF WindowStart(entries, u, now, config) THEN 1
                                 ELSE Min(winAdmits + 1, config.max_login_attempts))
                           ELSE winAdmits
    /\ UNCHANGED <<proc, dataSize, initialized, config, rate_limits, now>>
    /\ UNCHANGED <<threadVars, heap>>

Validate == ValidateWith(Usernames, Passwords, StoreFiles, FALSE)

ProcessInput ==
    /\ proc = "running"
    /\ \E input \in ProcessInputs, n \in ProcessLengths, mallocOk \in BOOLEAN :
         \E o \in auth_process_input(initialized, input, n, dataSize, mallocOk) :
           /\ proc' = o.proc
           /\ last' = [Call("auth_process_input", input, n, o.result, <<>>, TRUE, "none")
                           EXCEPT !.fault = IF mallocOk THEN "none" ELSE "malloc"]
    /\ UNCHANGED <<dataSize, initialized, config, rate_limits, entries, now,
                   hist, winAdmits>>
    /\ UNCHANGED <<threadVars, heap>>

\* the bytes fopen(filename) can give access to, NULLSTR when it fails
DbContents == {Flatten(StoreLines(f)) : f \in StoreFiles}
FileContents(filename) ==
    IF filename = DefaultPath THEN {NULLSTR} \cup DbContents ELSE {NULLSTR}

\* what goes wrong in the C library during a call: nothing, malloc, fread
Faults == {"none", "malloc", "read"}

HandleFile ==
    /\ proc = "running"
    /\ \E f \in Filenames, fault \in Faults :
        \E content \in FileContents(f) :
         \E o \in auth_handle_file(initialized, f, content, dataSize,
                                   fault # "malloc", fault = "read") :
           /\ proc' = o.proc
           /\ last' = [Call("auth_handle_file", f, NULL, o.result, <<>>, TRUE, "none")
                           EXCEPT !.fault = fault]
    /\ UNCHANGED <<dataSize, initialized, config, rate_limits, entries, now,
                   hist, winAdmits>>
    /\ UNCHANGED <<threadVars, heap>>

\* time passes
Tick ==
    /\ proc = "running"
    /\ now < MaxTime
    /\ now' = now + 1
    /\ last' = NoCall
    /\ UNCHANGED <<proc, dataSize, initialized, config, rate_limits, entries,
                   hist, winAdmits>>
    /\ UNCHANGED <<threadVars, heap>>

Next ==
    \/ Initialize
    \/ Cleanup
    \/ Validate
    \/ ProcessInput
    \/ HandleFile
    \/ Tick

Spec == Init /\ [][Next]_vars

(* ------------------------------------------------------------------ *)
(* The rate limiter observed for one username                          *)
(* ------------------------------------------------------------------ *)
LimiterConfigs == {CustomConfig(1, 2), CustomConfig(2, 2)}

InitializeLimiter == InitializeWith(LimiterConfigs)

ValidateObserved == ValidateWith({UserAl}, {PwGood, PwWrong, PwLong}, {"both"}, TRUE)

NextLimiter ==
    \/ InitializeLimiter
    \/ Cleanup
    \/ ValidateObserved
    \/ Tick

SpecLimiter == Init /\ [][NextLimiter]_vars

(* ------------------------------------------------------------------ *)
(* The rate limiter with its table nearly full                         *)
(* ------------------------------------------------------------------ *)
\* the k-th of the usernames that filled the table: "u" and three digits
Filler(k) == <<117, 48 + (k \div 100), 48 + ((k \div 10) % 10), 48 + (k % 10)>>

\* the table after one validate call at time 0 for each of n usernames
FilledTable(n) ==
    [k \in 1..n |-> [username |-> Filler(k), last_attempt |-> 0, attempt_count |-> 1]]

\* the engine, in a build that can allocate the table, after initialize and
\* one validate call for each of RATE_LIMIT_CAPACITY - 1 usernames
InitFull ==
    /\ proc = "running"
    /\ dataSize = OverrideDataSize
    /\ initialized = TRUE
    /\ config \in LimiterConfigs
    /\ rate_limits = secure_malloc(SIZEOF_RateLimit * RATE_LIMIT_CAPACITY, dataSize, TRUE)
    /\ entries = FilledTable(RATE_LIMIT_CAPACITY - 1)
    /\ now = 0
    /\ last = NoCall
    /\ hist = <<>>
    /\ winAdmits = 0
    /\ pc = [t \in Threads |-> "idle"]
    /\ loc = [t \in Threads |-> NoLocals]
    /\ rate_limit_lock = FreshMutex
    /\ entry_locks = <<>>
    /\ freed = FALSE
    /\ hazard = "none"
    /\ installs = 1
    /\ allocs = 1
    /\ admits = NoAdmits
    /\ heap = NoBlock

\* validate calls for a username of the table and for two that are not in it
FullUsers == {Filler(1), UserAl, UserBad}
ValidateFull == ValidateWith(FullUsers, {PwGood, PwWrong}, {"both"}, FALSE)

NextFull ==
    \/ ValidateFull
    \/ Tick

SpecFull == InitFull /\ [][NextFull]_vars

(* ------------------------------------------------------------------ *)
(* The store lookup on its own                                         *)
(* ------------------------------------------------------------------ *)
\* the longest username validate accepts, and "Al"
User31 == Rep(97, MAX_USERNAME_LENGTH - 1)
UserUpper == <<65, 108>>

\* the upper-case form of a hexadecimal text
ToUpperHex(s) == [k \in 1..Len(s) |-> IF s[k] >= 97 /\ s[k] <= 102 THEN s[k] - 32 ELSE s[k]]

\* the records written to password files, by the name of their line: for
\* "al" (two, with different salts), "bob;x", "Al", the 31-byte and the
\* 32-byte username
RecordNames == {"al", "al_b", "bob", "Al", "a31", "a32"}
Written(name) ==
    CASE name = "al" -> [username |-> UserAl, salt |-> SaltA, hash |-> EVP_Digest(SaltA, PwGood)]
      [] name = "al_b" -> [username |-> UserAl, salt |-> SaltB, hash |-> EVP_Digest(SaltB, PwWrong)]
      [] name = "bob" -> [username |-> UserBad, salt |-> SaltB, hash |-> EVP_Digest(SaltB, PwGood)]
      [] name = "Al" -> [username |-> UserUpper, salt |-> SaltB, hash |-> EVP_Digest(SaltB, PwGood)]
      [] name = "a31" -> [username |-> User31, salt |-> SaltA, hash |-> EVP_Digest(SaltA, PwGood)]
      [] name = "a32" -> [username |-> UserLong, salt |-> SaltB, hash |-> EVP_Digest(SaltB, PwGood)]

\* the lines for "al" that are not records: too short, a 'g' as the first
\* digit of the salt or of the hash, upper-case salt digits, a ';' between
\* salt and hash, and two more digits after the hash
MalformedNames == {"al_short", "al_nonhex", "al_badhash", "al_upper", "al_delim", "al_long"}
Malformed(name) ==
    LET salt == HexEncode(SaltB)
        hash == HexEncode(EVP_Digest(SaltB, PwGood))
    IN  CASE name = "al_short" -> UserAl \o <<58, 48, 48, 10>>
          [] name = "al_nonhex" ->
                UserAl \o <<58, 103>> \o Tail(HexEncode(SaltA)) \o <<58>>
                    \o HexEncode(EVP_Digest(SaltA, PwGood)) \o <<10>>
          [] name = "al_badhash" ->
                UserAl \o <<58>> \o salt \o <<58, 103>> \o Tail(hash) \o <<10>>
          [] name = "al_upper" ->
                UserAl \o <<58>> \o ToUpperHex(salt) \o <<58>> \o hash \o <<10>>
          [] name = "al_delim" ->
                UserAl \o <<58>> \o salt \o <<59>> \o hash \o <<10>>
          [] name = "al_long" ->
                UserAl \o <<58>> \o salt \o <<58>> \o hash \o <<48, 48, 10>>

\* the lines password files are made of, by name
LineNames == RecordNames \cup MalformedNames
LineOf(name) ==
    IF name \in RecordNames
    THEN RecordLine(Written(name).username, Written(name).salt, Written(name).hash)
    ELSE Malformed(name)

\* the lines by name, computed once
KnownLines == [name \in LineNames |-> LineOf(name)] @@ <<>>

\* the password files: up to MaxFileLines lines, each file as the names of
\* its lines; and the lines fgets returns for it
Files == UNION {[1..n -> LineNames] : n \in 1..MaxFileLines}
FileLines(file) == [i \in 1..Len(file) |-> KnownLines[file[i]]]

\* the usernames looked up
LookupUsers == {UserAl, UserBad, User31}

\* read_password_file(u, &hash_data) on a password file
LookupStep ==
    /\ proc = "running"
    /\ last.op = "none"
    /\ \E file \in Files, u \in LookupUsers, openable \in BOOLEAN :
         LET r == read_password_file(u, openable, FileLines(file))
         IN  last' = Call("read_password_file", u, r, r.result, <<>>, openable, file)
    /\ UNCHANGED <<proc, dataSize, initialized, config, rate_limits, entries, now,
                   hist, winAdmits>>
    /\ UNCHANGED <<threadVars, heap>>

NextStore == LookupStep

SpecStore == Init /\ [][NextStore]_vars

(* ------------------------------------------------------------------ *)
(* The secure buffer on its own                                        *)
(* ------------------------------------------------------------------ *)
\* the sizes asked of secure_malloc, and what malloc can have left in the
\* memory it returns
BufferSizes == {0, 1, 12, 16, DATA_SIZE, DATA_SIZE + 1, OverrideDataSize + 1}
MallocFills == {0, 165}

\* what callers put in the region: zeros (memset), "abc" zero-padded
\* (strncpy), a size_t equal to the region's size at offset 4, the canary
\* value at offset 0
Patterns == {"zero", "text", "sized", "canary"}
PatternByte(name, size, k) ==
    CASE name = "zero" -> 0
      [] name = "text" -> (IF k <= 3 THEN <<97, 98, 99>>[k] ELSE 0)
      [] name = "sized" -> (IF k \in 5..12 THEN ToLittleEndian(size, 8)[k - 4] ELSE 0)
      [] name = "canary" -> (IF k <= 4 THEN CanaryBytes[k] ELSE 0)

\* secure_malloc(size)
Acquire ==
    /\ proc = "running"
    /\ heap.st # "live"
    /\ \E size \in BufferSizes, mallocOk \in BOOLEAN, fill \in MallocFills :
         LET ptr == secure_malloc(size, dataSize, mallocOk)
         IN  /\ heap' = IF ptr = NULL THEN NoBlock
                        ELSE [st |-> "live", size |-> size,
                              bytes |-> SecureBlock(size, fill),
                              written |-> FALSE, cleansed |-> 0]
             /\ last' = Call("secure_malloc", size, mallocOk, ptr, <<>>, TRUE, "none")
    /\ UNCHANGED <<proc, dataSize, initialized, config, rate_limits, entries, now,
                   hist, winAdmits>>
    /\ UNCHANGED threadVars

\* the caller fills the region it was given
WriteRegion ==
    /\ proc = "running"
    /\ heap.st = "live"
    /\ \E name \in Patterns :
         /\ heap' = [heap EXCEPT
                       !.bytes = [k \in 1..Len(heap.bytes) |->
                                    IF k \in 5..(heap.size + 4)
                                    THEN PatternByte(name, heap.size, k - 4)
                                    ELSE heap.bytes[k]],
                       !.written = TRUE]
         /\ last' = Call("write", name, NULL, NULL, <<>>, TRUE, "none")
    /\ UNCHANGED <<proc, dataSize, initialized, config, rate_limits, entries, now,
                   hist, winAdmits>>
    /\ UNCHANGED threadVars

\* the caller writes a zero one byte before the region or one byte after it
Overrun ==
    /\ proc = "running"
    /\ heap.st = "live"
    /\ \E at \in {4, heap.size + 5} :
         /\ heap' = [heap EXCEPT !.bytes[at] = 0]
         /\ last' = Call("overrun", at, NULL, NULL, <<>>, TRUE, "none")
    /\ UNCHANGED <<proc, dataSize, initialized, config, rate_limits, entries, now,
                   hist, winAdmits>>
    /\ UNCHANGED threadVars

\* secure_free(ptr): nothing for NULL; otherwise the canary check, then
\* OPENSSL_cleanse and free.  last.a2 says whether the call read only bytes
\* of the allocation that were written.
Release ==
    /\ proc = "running"
    /\ heap.st # "released"
    /\ IF heap.st = "none"
       THEN /\ last' = Call("secure_free", heap, TRUE, "ok", <<>>, TRUE, "none")
            /\ UNCHANGED <<proc, heap>>
       ELSE LET mem == Bytes(heap.bytes)
                n   == StoredSize(mem)
                outcomes == secure_free(mem)
            IN  \E o \in outcomes :
                  /\ last' = Call("secure_free", heap,
                                  heap.written /\ outcomes \in {{"ok"}, {"abort"}},
                                  o, <<>>, TRUE, "none")
                  /\ proc' = IF o = "ok" THEN proc ELSE o
                  /\ heap' = IF o = "ok"
                             THEN [heap EXCEPT
                                     !.st = "released",
                                     !.bytes = IF n >= 0 THEN OPENSSL_cleanse(@, n) ELSE @,
                                     !.cleansed = n]
                             ELSE heap
    /\ UNCHANGED <<dataSize, initialized, config, rate_limits, entries, now,
                   hist, winAdmits>>
    /\ UNCHANGED threadVars

NextBuffer ==
    \/ Acquire
    \/ WriteRegion
    \/ Overrun
    \/ Release

SpecBuffer == Init /\ [][NextBuffer]_vars

(* ------------------------------------------------------------------ *)
(* Concurrent callers: each public call as the steps of its thread     *)
(* ------------------------------------------------------------------ *)
\* the pairs of operations the callers have in flight together: validate
\* calls only, or also a cleanup beside validate calls and initialize calls
\* beside each other
ValidatorPairs == {<<"validate", "validate">>}
TeardownPairs ==
    ValidatorPairs \cup {<<"validate", "cleanup">>, <<"cleanup", "validate">>,
                         <<"initialize", "initialize">>}

\* thread t may begin op beside the calls in flight
MayBegin(t, op, pairs) ==
    \A u \in Threads \ {t} : pc[u] = "idle" \/ <<loc[u].op, op>> \in pairs

\* rate_limits points to an allocated table
TableLive == rate_limits # NULL /\ ~freed

\* the entry thread t points to is among the first rate_limit_count
EntryThere(t) == loc[t].limit \in 1..Len(entries)

\* the variables of the single-caller observation, which threads leave alone
seqVars == <<dataSize, last, hist, winAdmits, heap>>

\* thread t goes to location l; thread t returns result, its locals gone
Goto(t, l) == pc' = [pc EXCEPT ![t] = l]
Return(t, result) ==
    /\ pc' = [pc EXCEPT ![t] = "idle"]
    /\ loc' = [loc EXCEPT ![t] = [NoLocals EXCEPT !.op = loc[t].op, !.result = result]]

\* an access to memory or to a lock; when it is dead (released, destroyed or
\* never initialized) the behaviour is undefined: the process faults, or goes
\* on in a state the language does not define and the model does not follow
Touch(dead, kind) ==
    /\ hazard' = IF dead /\ hazard = "none" THEN kind ELSE hazard
    /\ proc' \in (IF dead THEN {"crash", "undefined"} ELSE {"running"})

\* auth_validate_user: the checks before the rate limiter
ValidateBegin(t, pairs) ==
    /\ proc = "running" /\ pc[t] = "idle" /\ MayBegin(t, "validate", pairs)
    /\ \E u \in ThreadUsers :
         IF ~initialized
         THEN /\ loc' = [loc EXCEPT ![t] = [NoLocals EXCEPT !.op = "validate",
                                                            !.result = AUTH_ERROR_INITIALIZATION]]
              /\ UNCHANGED pc
         ELSE /\ loc' = [loc EXCEPT ![t] = [NoLocals EXCEPT !.op = "validate", !.username = u]]
              /\ Goto(t, "lock_table")
    /\ UNCHANGED <<proc, initialized, config, rate_limits, entries, now, seqVars,
                   rate_limit_lock, entry_locks, freed, hazard, installs, allocs, admits>>

\* validate_rate_limit: pthread_mutex_lock(&g_auth_state.rate_limit_lock)
LockTable(t) ==
    /\ proc = "running" /\ pc[t] = "lock_table"
    /\ pthread_mutex_lock_returns(rate_limit_lock, t)
    /\ rate_limit_lock' = Mutex("held", t)
    /\ Touch(LockDead(rate_limit_lock), "rate_limit_lock")
    /\ Goto(t, "find")
    /\ UNCHANGED <<initialized, config, rate_limits, entries, now, seqVars, loc,
                   entry_locks, freed, installs, allocs, admits>>

\* validate_rate_limit: the search for the username's entry
FindStep(t) ==
    /\ proc = "running" /\ pc[t] = "find"
    /\ loc' = [loc EXCEPT ![t].limit = FindEntry(entries, loc[t].username, 1)]
    /\ Touch(Len(entries) > 0 /\ ~TableLive, "table")
    /\ Goto(t, "create")
    /\ UNCHANGED <<initialized, config, rate_limits, entries, now, seqVars,
                   rate_limit_lock, entry_locks, freed, installs, allocs, admits>>

\* validate_rate_limit: a new entry when none was found and the table has room
CreateStep(t) ==
    /\ proc = "running" /\ pc[t] = "create"
    /\ IF loc[t].limit = 0 /\ Len(entries) < RATE_LIMIT_CAPACITY
       THEN /\ entries' = Append(entries, [username |-> loc[t].username,
                                           last_attempt |-> UNINIT, attempt_count |-> 0])
            /\ entry_locks' = Append(entry_locks, FreshMutex)
            /\ loc' = [loc EXCEPT ![t].limit = Len(entries) + 1]
            /\ hazard' = IF ~TableLive /\ hazard = "none" THEN "table" ELSE hazard
            /\ proc' \in (IF rate_limits = NULL THEN {"crash"}
                          ELSE IF freed THEN {"crash", "undefined"} ELSE {"running"})
            /\ Goto(t, "lock_entry")
       ELSE /\ Goto(t, IF loc[t].limit # 0 THEN "lock_entry" ELSE "unlock_table")
            /\ UNCHANGED <<entries, entry_locks, loc, hazard, proc>>
    /\ UNCHANGED <<initialized, config, rate_limits, now, seqVars, rate_limit_lock,
                   freed, installs, allocs, admits>>

\* validate_rate_limit: pthread_mutex_lock(&limit->lock)
LockEntry(t) ==
    /\ proc = "running" /\ pc[t] = "lock_entry"
    /\ IF EntryThere(t)
       THEN /\ pthread_mutex_lock_returns(entry_locks[loc[t].limit], t)
            /\ entry_locks' = [entry_locks EXCEPT ![loc[t].limit] = Mutex("held", t)]
            /\ Touch(~TableLive \/ LockDead(entry_locks[loc[t].limit]), "entry_lock")
       ELSE /\ Touch(TRUE, "entry_lock")
            /\ UNCHANGED entry_locks
    /\ Goto(t, "check")
    /\ UNCHANGED <<initialized, config, rate_limits, entries, now, seqVars, loc,
                   rate_limit_lock, freed, installs, allocs, admits>>

\* the outcomes of the throttle condition on entry e: a last_attempt that was
\* never written compares either way
ThrottleOutcomes(e, t, cfg) ==
    IF e.last_attempt = UNINIT
    THEN (IF e.attempt_count >= cfg.max_login_attempts THEN {TRUE, FALSE} ELSE {FALSE})
    ELSE {Throttled(e, t, cfg)}

\* validate_rate_limit: time(NULL) and the throttle condition
CheckStep(t) ==
    /\ proc = "running" /\ pc[t] = "check"
    /\ IF EntryThere(t)
       THEN /\ Touch(~TableLive, "entry")
            /\ \E th \in ThrottleOutcomes(entries[loc[t].limit], now, config) :
                 IF th
                 THEN /\ loc' = [loc EXCEPT ![t].result = AUTH_ERROR_RATE_LIMIT]
                      /\ Goto(t, "unlock_entry")
                      /\ UNCHANGED admits
                 ELSE /\ Goto(t, "load")
                      /\ admits' = [admits EXCEPT ![loc[t].username] =
                                       [total |-> @.total + 1, tick |-> @.tick + 1]]
                      /\ UNCHANGED loc
       ELSE /\ Touch(TRUE, "entry")
            /\ Goto(t, "unlock_entry")
            /\ UNCHANGED <<loc, admits>>
    /\ UNCHANGED <<initialized, config, rate_limits, entries, now, seqVars,
                   rate_limit_lock, entry_locks, freed, installs, allocs>>

\* validate_rate_limit: limit->attempt_count++, the load
LoadStep(t) ==
    /\ proc = "running" /\ pc[t] = "load"
    /\ IF EntryThere(t)
       THEN /\ loc' = [loc EXCEPT ![t].count = entries[loc[t].limit].attempt_count]
            /\ Touch(~TableLive, "entry")
       ELSE /\ Touch(TRUE, "entry")
            /\ UNCHANGED loc
    /\ Goto(t, "store")
    /\ UNCHANGED <<initialized, config, rate_limits, entries, now, seqVars,
                   rate_limit_lock, entry_locks, freed, installs, allocs, admits>>

\* validate_rate_limit: limit->attempt_count++, the store, and
\* limit->last_attempt = current_time
StoreStep(t) ==
    /\ proc = "running" /\ pc[t] = "store"
    /\ IF EntryThere(t)
       THEN /\ entries' = [entries EXCEPT ![loc[t].limit] =
                              [@ EXCEPT !.attempt_count = loc[t].count + 1,
                                        !.last_attempt = now]]
            /\ Touch(~TableLive, "entry")
       ELSE /\ Touch(TRUE, "entry")
            /\ UNCHANGED entries
    /\ Goto(t, "unlock_entry")
    /\ UNCHANGED <<initialized, config, rate_limits, now, seqVars, loc,
                   rate_limit_lock, entry_locks, freed, installs, allocs, admits>>

\* validate_rate_limit: pthread_mutex_unlock(&limit->lock)
UnlockEntry(t) ==
    /\ proc = "running" /\ pc[t] = "unlock_entry"
    /\ IF EntryThere(t)
       THEN /\ entry_locks' = [entry_locks EXCEPT ![loc[t].limit] =
                                  IF LockDead(@) THEN @ ELSE FreshMutex]
            /\ Touch(~TableLive \/ LockDead(entry_locks[loc[t].limit]), "entry_lock")
       ELSE /\ Touch(TRUE, "entry_lock")
            /\ UNCHANGED entry_locks
    /\ Goto(t, "unlock_table")
    /\ UNCHANGED <<initialized, config, rate_limits, entries, now, seqVars, loc,
                   rate_limit_lock, freed, installs, allocs, admits>>

\* validate_rate_limit returning without the unlock of the table lock
UnlockTable_left_locked(t) ==
    /\ proc = "running" /\ pc[t] = "unlock_table"
    /\ Goto(t, "finish")
    /\ UNCHANGED <<proc, initialized, config, rate_limits, entries, now, seqVars, loc,
                   rate_limit_lock, entry_locks, freed, hazard, installs, allocs, admits>>

\* validate_rate_limit: pthread_mutex_unlock(&g_auth_state.rate_limit_lock)
UnlockTable(t) ==
    /\ proc = "running" /\ pc[t] = "unlock_table"
    /\ rate_limit_lock' = IF LockDead(rate_limit_lock) THEN rate_limit_lock ELSE FreshMutex
    /\ Touch(LockDead(rate_limit_lock), "rate_limit_lock")
    /\ Goto(t, "finish")
    /\ UNCHANGED <<initialized, config, rate_limits, entries, now, seqVars, loc,
                   entry_locks, freed, installs, allocs, admits>>

\* auth_validate_user after the rate limiter: the store lookup, the hash and
\* the comparison, for the password PwGood and a password file that opens
ValidateReturn(t) ==
    /\ proc = "running" /\ pc[t] = "finish"
    /\ IF loc[t].result = AUTH_ERROR_RATE_LIMIT
       THEN Return(t, AUTH_ERROR_RATE_LIMIT)
       ELSE LET rec == read_password_file(loc[t].username, TRUE, StoreLines("both"))
              IN  Return(t, IF rec.result # AUTH_SUCCESS THEN rec.result
                            ELSE IF CRYPTO_memcmp_differs(
                                      compute_hash(PwGood, rec.salt).hash, rec.hash)
                            THEN AUTH_ERROR_AUTH_FAILED ELSE AUTH_SUCCESS)
    /\ UNCHANGED <<proc, initialized, config, rate_limits, entries, now, seqVars,
                   rate_limit_lock, entry_locks, freed, hazard, installs, allocs, admits>>

\* auth_initialize: the check of the flag
InitBegin(t, pairs) ==
    /\ proc = "running" /\ pc[t] = "idle" /\ MayBegin(t, "initialize", pairs)
    /\ \E c \in LimiterConfigs, ok \in BOOLEAN :
         IF initialized
         THEN /\ loc' = [loc EXCEPT ![t] = [NoLocals EXCEPT !.op = "initialize",
                                                            !.result = AUTH_ERROR_INITIALIZATION]]
              /\ UNCHANGED pc
         ELSE /\ loc' = [loc EXCEPT ![t] = [NoLocals EXCEPT !.op = "initialize", !.cfg = c,
                                                            !.mallocOk = ok]]
              /\ Goto(t, "init_config")
    /\ UNCHANGED <<proc, initialized, config, rate_limits, entries, now, seqVars,
                   rate_limit_lock, entry_locks, freed, hazard, installs, allocs, admits>>

\* auth_initialize: the configuration is copied
InitConfig(t) ==
    /\ proc = "running" /\ pc[t] = "init_config"
    /\ config' = IF loc[t].cfg # NULLCONFIG THEN loc[t].cfg ELSE default_config
    /\ Goto(t, "init_locks")
    /\ UNCHANGED <<proc, initialized, rate_limits, entries, now, seqVars, loc,
                   rate_limit_lock, entry_locks, freed, hazard, installs, allocs, admits>>

\* auth_initialize: pthread_mutex_init of the global locks
InitLocks(t) ==
    /\ proc = "running" /\ pc[t] = "init_locks"
    /\ rate_limit_lock' = FreshMutex
    /\ Goto(t, "init_alloc")
    /\ UNCHANGED <<proc, initialized, config, rate_limits, entries, now, seqVars, loc,
                   entry_locks, freed, hazard, installs, allocs, admits>>

\* auth_initialize: the table is allocated; AUTH_ERROR_MEMORY when it is not
InitAlloc(t) ==
    /\ proc = "running" /\ pc[t] = "init_alloc"
    /\ LET table == secure_malloc(SIZEOF_RateLimit * RATE_LIMIT_CAPACITY, dataSize,
                                  loc[t].mallocOk)
       IN  /\ rate_limits' = table
           /\ IF table = NULL
              THEN /\ Return(t, AUTH_ERROR_MEMORY)
                   /\ UNCHANGED <<allocs, freed>>
              ELSE /\ allocs' = allocs + 1
                   /\ freed' = FALSE
                   /\ Goto(t, "init_flag")
                   /\ UNCHANGED loc
    /\ UNCHANGED <<proc, initialized, config, entries, now, seqVars,
                   rate_limit_lock, entry_locks, hazard, installs, admits>>

\* auth_initialize: the flag is set and the call returns success
InitFlag(t) ==
    /\ proc = "running" /\ pc[t] = "init_flag"
    /\ initialized' = TRUE
    /\ installs' = installs + 1
    /\ Return(t, AUTH_SUCCESS)
    /\ UNCHANGED <<proc, config, rate_limits, entries, now, seqVars,
                   rate_limit_lock, entry_locks, freed, hazard, allocs, admits>>

\* auth_cleanup: the check of the flag
CleanupBegin(t, pairs) ==
    /\ proc = "running" /\ pc[t] = "idle" /\ MayBegin(t, "cleanup", pairs)
    /\ loc' = [loc EXCEPT ![t] = [NoLocals EXCEPT !.op = "cleanup"]]
    /\ IF ~initialized THEN UNCHANGED pc
       ELSE Goto(t, IF rate_limits # NULL THEN "destroy_entry_locks" ELSE "destroy_locks")
    /\ UNCHANGED <<proc, initialized, config, rate_limits, entries, now, seqVars,
                   rate_limit_lock, entry_locks, freed, hazard, installs, allocs, admits>>

\* auth_cleanup: pthread_mutex_destroy of every entry's lock
CleanupEntryLocks(t) ==
    /\ proc = "running" /\ pc[t] = "destroy_entry_locks"
    /\ entry_locks' = [i \in 1..Len(entry_locks) |-> DeadMutex]
    /\ Touch(\E i \in 1..Len(entry_locks) : entry_locks[i].st = "held", "destroy_held")
    /\ Goto(t, "free")
    /\ UNCHANGED <<initialized, config, rate_limits, entries, now, seqVars, loc,
                   rate_limit_lock, freed, installs, allocs, admits>>

\* auth_cleanup: secure_free(g_auth_state.rate_limits)
CleanupFree(t) ==
    /\ proc = "running" /\ pc[t] = "free"
    /\ \E o \in secure_free(Table(entries)) :
         IF o = "ok"
         THEN /\ freed' = TRUE
              /\ Goto(t, "destroy_locks")
              /\ UNCHANGED proc
         ELSE /\ proc' = o
              /\ UNCHANGED <<freed, pc>>
    /\ UNCHANGED <<initialized, config, rate_limits, entries, now, seqVars, loc,
                   rate_limit_lock, entry_locks, hazard, installs, allocs, admits>>

\* auth_cleanup: pthread_mutex_destroy of the global locks
CleanupLocks(t) ==
    /\ proc = "running" /\ pc[t] = "destroy_locks"
    /\ rate_limit_lock' = DeadMutex
    /\ Touch(rate_limit_lock.st = "held", "destroy_held")
    /\ Goto(t, "reset")
    /\ UNCHANGED <<initialized, config, rate_limits, entries, now, seqVars, loc,
                   entry_locks, freed, installs, allocs, admits>>

\* auth_cleanup: memset(&g_auth_state, 0, sizeof(g_auth_state))
CleanupReset(t) ==
    /\ proc = "running" /\ pc[t] = "reset"
    /\ initialized' = FALSE
    /\ config' = ZeroConfig
    /\ rate_limits' = NULL
    /\ entries' = <<>>
    /\ entry_locks' = <<>>
    /\ rate_limit_lock' = ZeroMutex
    /\ freed' = FALSE
    /\ installs' = 0
    /\ allocs' = 0
    /\ admits' = NoAdmits
    /\ Return(t, NULL)
    /\ UNCHANGED <<proc, now, seqVars, hazard>>

\* time passes between the calls
TickIdle ==
    /\ proc = "running"
    /\ \A t \in Threads : pc[t] = "idle"
    /\ now < MaxTime
    /\ now' = now + 1
    /\ admits' = [u \in ThreadUsers |-> [admits[u] EXCEPT !.tick = 0]]
    /\ UNCHANGED <<proc, initialized, config, rate_limits, entries, seqVars, pc, loc,
                   rate_limit_lock, entry_locks, freed, hazard, installs, allocs>>

\* a step of thread t, the callers keeping to pairs
ThreadStep(t, pairs) ==
    \/ ValidateBegin(t, pairs)
    \/ LockTable(t)
    \/ FindStep(t)
    \/ CreateStep(t)
    \/ LockEntry(t)
    \/ CheckStep(t)
    \/ LoadStep(t)
    \/ StoreStep(t)
    \/ UnlockEntry(t)
    \/ UnlockTable(t)
    \/ ValidateReturn(t)
    \/ InitBegin(t, pairs)
    \/ InitConfig(t)
    \/ InitLocks(t)
    \/ InitAlloc(t)
    \/ InitFlag(t)
    \/ CleanupBegin(t, pairs)
    \/ CleanupEntryLocks(t)
    \/ CleanupFree(t)
    \/ CleanupLocks(t)
    \/ CleanupReset(t)

\* concurrent validate calls on an engine set up and torn down between them
NextValidators ==
    \/ \E t \in Threads : ThreadStep(t, ValidatorPairs)
    \/ TickIdle

SpecValidators == Init /\ [][NextValidators]_vars

\* the engine after a successful auth_initialize, before any validate call
InitReady ==
    /\ proc = "running"
    /\ dataSize = OverrideDataSize
    /\ initialized = TRUE
    /\ config \in LimiterConfigs
    /\ rate_limits = secure_malloc(SIZEOF_RateLimit * RATE_LIMIT_CAPACITY, dataSize, TRUE)
    /\ entries = <<>>
    /\ now = 0
    /\ last = NoCall
    /\ hist = <<>>
    /\ winAdmits = 0
    /\ pc = [t \in Threads |-> "idle"]
    /\ loc = [t \in Threads |-> NoLocals]
    /\ rate_limit_lock = FreshMutex
    /\ entry_locks = <<>>
    /\ freed = FALSE
    /\ hazard = "none"
    /\ installs = 1
    /\ allocs = 1
    /\ admits = NoAdmits
    /\ heap = NoBlock

\* a step of thread t in a validate call
ValidateStep(t) ==
    \/ ValidateBegin(t, ValidatorPairs)
    \/ LockTable(t)
    \/ FindStep(t)
    \/ CreateStep(t)
    \/ LockEntry(t)
    \/ CheckStep(t)
    \/ LoadStep(t)
    \/ StoreStep(t)
    \/ UnlockEntry(t)
    \/ UnlockTable(t)
    \/ ValidateReturn(t)

\* concurrent validate calls on an initialized engine
NextLocks ==
    \/ \E t \in Threads : ValidateStep(t)
    \/ TickIdle

SpecLocks == InitReady /\ [][NextLocks]_vars

\* a step of thread t inside the call it is making
InCallStep(t) == pc[t] # "idle" /\ ValidateStep(t)

\* the same callers under a scheduler that runs every thread that is in a
\* call, and lets a thread that keeps finding a mutex free take it
SpecLocksFair == SpecLocks /\ \A t \in Threads : SF_vars(InCallStep(t))

\* concurrent validate and cleanup calls, and concurrent initialize calls
NextTeardown ==
    \/ \E t \in Threads : ThreadStep(t, TeardownPairs)
    \/ TickIdle

SpecTeardown == Init /\ [][NextTeardown]_vars

(* ------------------------------------------------------------------ *)
(* What the specification says of the store, independently of the      *)
(* code's parser                                                       *)
(* ------------------------------------------------------------------ *)
IsLowerHex(c) == (c >= 48 /\ c <= 57) \/ (c >= 97 /\ c <= 102)

\* the bytes encoded by the 2n lowercase hex digits of s from index k on
HexDecode(s, k, n) ==
    [i \in 1..n |-> 16 * HexVal(s[k + 2 * (i - 1)]) + HexVal(s[k + 2 * (i - 1) + 1])]

\* whether line is username:hex(salt):hex(hash)\n for the given username
IsRecordOf(line, u) ==
    LET m == Len(u)
    IN  /\ Len(line) = m + 2 * SALT_SIZE + 2 * HASH_SIZE + 3
        /\ SubSeq(line, 1, m) = u
        /\ line[m + 1] = 58
        /\ line[m + 2 * SALT_SIZE + 2] = 58
        /\ line[Len(line)] = 10
        /\ \A k \in (m + 2)..(m + 2 * SALT_SIZE + 1) : IsLowerHex(line[k])
        /\ \A k \in (m + 2 * SALT_SIZE + 3)..(Len(line) - 1) : IsLowerHex(line[k])

\* whether the username field of line (the bytes before its first ':') is u
HasUsername(line, u) ==
    /\ Len(line) > Len(u)
    /\ SubSeq(line, 1, Len(u)) = u
    /\ line[Len(u) + 1] = 58

RECURSIVE SpecRecord(_, _)
\* the record the store holds for u: that of the first line whose username
\* field is u, if that line is well formed; otherwise none
SpecRecord(lines, u) ==
    IF lines = <<>> THEN [found |-> FALSE]
    ELSE IF HasUsername(Head(lines), u)
    THEN (IF IsRecordOf(Head(lines), u)
          THEN [found |-> TRUE,
                salt |-> HexDecode(Head(lines), Len(u) + 2, SALT_SIZE),
                hash |-> HexDecode(Head(lines), Len(u) + 2 * SALT_SIZE + 3, HASH_SIZE)]
          ELSE [found |-> FALSE])
    ELSE SpecRecord(Tail(lines), u)

(* ------------------------------------------------------------------ *)
(* Claims                                                              *)
(* ------------------------------------------------------------------ *)
IsValidate == last.op = "auth_validate_user"

\* the call that has just returned passed the argument checks and the rate
\* limiter, and went on to the store
AdmittedCall == IsValidate /\ Len(last.steps) >= 2

\* the record of the store the call read, for the username it was given
ReadRecord == SpecRecord(StoreLines(last.store), last.a1)

\* the record exists and its hash is the digest of the call's password
PasswordMatches ==
    /\ ReadRecord.found
    /\ ReadRecord.hash = EVP_Digest(ReadRecord.salt, last.a2)

MaxAttempts == config.max_login_attempts
Window == config.login_timeout

\* the call that has just returned, with non-null arguments within the
\* length limits, is the N-th such call after one made less than a window
\* before it: N+1 calls inside a span shorter than the window
FullSpan ==
    /\ IsValidate
    /\ last.steps # <<>>
    /\ MaxAttempts >= 1
    /\ Len(hist) >= MaxAttempts + 1
    /\ now - hist[Len(hist) - MaxAttempts].time < Window

\* the N calls before the latest one were each admitted by the rate limiter
\* (they returned an outcome other than RateLimited) and so were counted in
\* the username's entry
EarlierCounted ==
    \A k \in (Len(hist) - MaxAttempts)..(Len(hist) - 1) : hist[k].counted

PreEntry == FindEntry(last.pre.entries, last.a1, 1)

\* the call was made at least a window after the last_attempt of its entry
WindowElapsed ==
    /\ IsValidate
    /\ last.steps # <<>>
    /\ PreEntry # 0
    /\ last.pre.entries[PreEntry].last_attempt # UNINIT
    /\ now - last.pre.entries[PreEntry].last_attempt >= last.pre.config.login_timeout

\* C3: a validate call made when at least the window has elapsed since the
\* entry's last_attempt is admitted, however many calls were throttled in
\* between; a throttled call leaves the table as it was and so does not
\* extend the lockout.
C3_ReleasedByTime ==
    /\ WindowElapsed => last.result # AUTH_ERROR_RATE_LIMIT
    /\ (IsValidate /\ last.result = AUTH_ERROR_RATE_LIMIT)
          => entries = last.pre.entries

\* a username that was at its maximum and throttled in the call before is
\* admitted once the window has elapsed
C3_Witness ==
    /\ WindowElapsed
    /\ last.pre.entries[PreEntry].attempt_count >= last.pre.config.max_login_attempts
    /\ Len(hist) >= 2
    /\ ~hist[Len(hist) - 1].counted
    /\ hist[Len(hist)].counted
    /\ last.result # AUTH_ERROR_RATE_LIMIT

\* C4: once the window has passed, the decisions for a username are those
\* for a fresh entry: max_attempts admitted calls are available in the new
\* window before any call is Throttled.
C4_FreshAfterWindow ==
    (IsValidate /\ last.result = AUTH_ERROR_RATE_LIMIT) => winAdmits >= MaxAttempts

ValidateOrder == <<"admit", "lookup", "hash", "compare">>

\* C5: the steps of a validate call occur in the order admission check,
\* store lookup, hash computation, comparison; a Throttled answer returns
\* RateLimited after the admission check alone, the store not opened and no
\* hash computed.
C5_StepOrder ==
    IsValidate =>
        /\ Len(last.steps) <= 4
        /\ last.steps = SubSeq(ValidateOrder, 1, Len(last.steps))
        /\ last.result = AUTH_ERROR_RATE_LIMIT
              => (last.steps = <<"admit">> /\ last.store = "none")
        /\ last.result \in {AUTH_ERROR_AUTH_FAILED, AUTH_ERROR_FILE_ACCESS}
              => Len(last.steps) >= 2
        /\ last.result = AUTH_SUCCESS => last.steps = ValidateOrder

\* a call has just been throttled
C5_Witness ==
    /\ IsValidate
    /\ last.result = AUTH_ERROR_RATE_LIMIT
    /\ last.steps = <<"admit">>

\* C6: an admitted call returns AuthFailed both when the store cannot be
\* opened and when it has no record for the username.
C6_UnifiedFailure ==
    (AdmittedCall /\ (~last.openable \/ ~ReadRecord.found))
        => last.result = AUTH_ERROR_AUTH_FAILED

\* whether the string has a byte outside [A-Za-z0-9_-]
OutsideCharset(u) == \E k \in 1..Len(u) : ~(isalnum(u[k]) \/ u[k] = 95 \/ u[k] = 45)

\* C7: on an initialized engine, a validate call whose username has a
\* character outside [A-Za-z0-9_-] returns InvalidInput and reaches neither
\* the rate-limit table nor the store lookup.
C7_CharsetRejected ==
    (IsValidate /\ last.pre.initialized /\ last.a1 # NULLSTR /\ last.a2 # NULLSTR
        /\ OutsideCharset(last.a1))
        => /\ last.result = AUTH_ERROR_INVALID_INPUT
           /\ last.steps = <<>>
           /\ entries = last.pre.entries

\* C8: auth_initialize on an uninitialized engine, the system allocator not
\* failing, returns success and leaves the engine initialized with an empty
\* table for RATE_LIMIT_CAPACITY identities.
C8_InitializeSucceeds ==
    (last.op = "auth_initialize" /\ ~last.pre.initialized /\ last.a2 = TRUE)
        => /\ last.result = AUTH_SUCCESS
           /\ initialized
           /\ rate_limits # NULL
           /\ entries = <<>>

\* C9: while the initialized flag is unset, validate, process_input and
\* handle_file return NotInitialized whatever their arguments, without a
\* step taken or any state touched, and cleanup changes nothing.
C9_FailFast ==
    (last.op \in {"auth_validate_user", "auth_process_input", "auth_handle_file",
                  "auth_cleanup"}
        /\ ~last.pre.initialized)
        => /\ last.op # "auth_cleanup" => last.result = AUTH_ERROR_INITIALIZATION
           /\ last.steps = <<>>
           /\ Snapshot = last.pre
           /\ proc = "running"

\* validate with a null username has just been refused on an engine whose
\* initialization had failed
C9_Witness ==
    /\ IsValidate
    /\ ~last.pre.initialized
    /\ last.pre.config # ZeroConfig
    /\ last.a1 = NULLSTR
    /\ last.result = AUTH_ERROR_INITIALIZATION

\* C10: initialize on an initialized engine returns an initialization
\* error and leaves the configuration, the table, every entry and the flag
\* unchanged.
C10_ReinitializeRejected ==
    (last.op = "auth_initialize" /\ last.pre.initialized)
        => /\ last.result = AUTH_ERROR_INITIALIZATION
           /\ Snapshot = last.pre

\* initialize with another configuration has just been refused on an engine
\* that holds entries
C10_Witness ==
    /\ last.op = "auth_initialize"
    /\ last.pre.initialized
    /\ last.a1 # NULLCONFIG
    /\ last.a1 # last.pre.config
    /\ entries # <<>>
    /\ last.result = AUTH_ERROR_INITIALIZATION

(* ------------------------------------------------------------------ *)
(* Failed initialization                                               *)
(* ------------------------------------------------------------------ *)
IsInitialize == last.op = "auth_initialize"

\* the engine state st is the one a failed auth_initialize leaves: a
\* configuration installed (cleanup and the initial state have none), the
\* flag unset
AfterFailedInit(st) == ~st.initialized /\ st.config # ZeroConfig

\* C11: the flag is set last in initialize.  A call on an uninitialized
\* engine whose allocation fails returns an error with the flag still unset,
\* and the flag is set only by a call that returns success with the table
\* allocated; in the state a failed initialize leaves, validate,
\* process_input and handle_file return NotInitialized, and a further
\* initialize is not rejected as already initialized: it succeeds when its
\* allocation does.
C11_FailedInitialize ==
    /\ (IsInitialize /\ ~last.pre.initialized /\ last.result # AUTH_SUCCESS)
          => (~initialized /\ last.result = AUTH_ERROR_MEMORY)
    /\ (IsInitialize /\ ~last.pre.initialized /\ initialized)
          => (last.result = AUTH_SUCCESS /\ rate_limits # NULL)
    /\ (AfterFailedInit(last.pre)
           /\ last.op \in {"auth_validate_user", "auth_process_input", "auth_handle_file"})
          => last.result = AUTH_ERROR_INITIALIZATION
    /\ (IsInitialize /\ AfterFailedInit(last.pre))
          => /\ last.result \in {AUTH_SUCCESS, AUTH_ERROR_MEMORY}
             /\ last.result = AUTH_SUCCESS
                  <=> secure_malloc(SIZEOF_RateLimit * RATE_LIMIT_CAPACITY,
                                    dataSize, last.a2) # NULL

\* an initialize made after a failed one has just succeeded
C11_Witness ==
    /\ IsInitialize
    /\ AfterFailedInit(last.pre)
    /\ last.result = AUTH_SUCCESS
    /\ initialized

(* ------------------------------------------------------------------ *)
(* Cleanup                                                             *)
(* ------------------------------------------------------------------ *)
IsCleanup == last.op = "auth_cleanup"

\* C12: cleanup is idempotent.  A cleanup of an initialized engine returns
\* with the table released and the configuration, the entry count and the
\* flag reset; a cleanup of an engine that is not initialized returns having
\* changed nothing.
C12_CleanupIdempotent ==
    /\ (IsCleanup /\ last.pre.initialized)
          => /\ proc = "running"
             /\ Snapshot = [initialized |-> FALSE, config |-> ZeroConfig,
                            rate_limits |-> NULL, entries |-> <<>>]
    /\ (IsCleanup /\ ~last.pre.initialized)
          => (proc = "running" /\ Snapshot = last.pre)

(* ------------------------------------------------------------------ *)
(* Concurrent validate calls                                           *)
(* ------------------------------------------------------------------ *)
\* the threads that were admitted for u and have not yet stored the
\* incremented counter
Incrementing(u) ==
    {t \in Threads : pc[t] \in {"load", "store"} /\ loc[t].username = u}

\* C13: under every interleaving of concurrent validate calls made at one
\* clock time, no increment of a username's counter is lost: attempt_count,
\* with the increment of a call that is inside the entry's critical section,
\* equals the number of calls admitted for the username; at most one call is
\* inside that section; and the calls admitted at one clock time never
\* exceed max_login_attempts.
C13_AtomicCounter ==
    \A u \in ThreadUsers :
        LET i == FindEntry(entries, u, 1)
        IN  /\ Cardinality(Incrementing(u)) <= 1
            /\ admits[u].total =
                  (IF i = 0 THEN 0 ELSE entries[i].attempt_count)
                      + Cardinality(Incrementing(u))
            /\ initialized => admits[u].tick <= config.max_login_attempts

\* a second call for a username is being counted while another thread's call
\* for the same username waits for the table lock
C13_Witness ==
    /\ pc[1] = "store"
    /\ pc[2] = "lock_table"
    /\ loc[1].username = UserAl
    /\ loc[2].username = UserAl
    /\ admits[UserAl].total = 2
    /\ config.max_login_attempts = 2

(* ------------------------------------------------------------------ *)
(* Teardown and set-up beside other calls                              *)
(* ------------------------------------------------------------------ *)
\* the accesses of a validate call to what cleanup has destroyed or released
DeadAccesses == {"rate_limit_lock", "table", "entry_lock", "entry"}

\* C14: when cleanup runs beside validate calls, no thread reads or writes
\* the rate-limit table, its entries or its locks after cleanup has destroyed
\* or released them.
C14_TeardownSafe == hazard \notin DeadAccesses

\* C15: of the initialize calls made concurrently on an uninitialized engine
\* at most one returns success, and the table is allocated once.
C15_SingleInitialize == installs <= 1 /\ allocs <= 1

\* the locations of validate_rate_limit between the lock and the unlock of
\* the entry's own mutex
EntrySection == {"check", "load", "store", "unlock_entry"}

\* C19: the table-wide lock is released before the entry's decision is made
\* under the entry's own lock: a thread inside an entry's critical section
\* does not hold rate_limit_lock.
C19_TableLockReleased ==
    \A t \in Threads :
        pc[t] \in EntrySection
            => ~(rate_limit_lock.st = "held" /\ rate_limit_lock.owner = t)

(* ------------------------------------------------------------------ *)
(* The full table                                                      *)
(* ------------------------------------------------------------------ *)
\* the validate call that has just returned reached the rate limiter with
\* the table at its capacity and no entry for its username
UntrackedCall ==
    /\ IsValidate
    /\ last.steps # <<>>
    /\ Len(last.pre.entries) = RATE_LIMIT_CAPACITY
    /\ PreEntry = 0

\* C16: with the table at its capacity, the admission check for a username
\* that has no entry allows the call, creates no entry and changes no entry,
\* on every such call; a username that has an entry is still tracked: its
\* call is throttled when the entry is at its maximum inside the window, and
\* counted in the entry otherwise.
C16_FullTableAllows ==
    /\ UntrackedCall
          => (last.result # AUTH_ERROR_RATE_LIMIT /\ entries = last.pre.entries)
    /\ (IsValidate /\ last.steps # <<>> /\ PreEntry # 0
          /\ Len(last.pre.entries) = RATE_LIMIT_CAPACITY)
          => IF Throttled(last.pre.entries[PreEntry], now, last.pre.config)
             THEN last.result = AUTH_ERROR_RATE_LIMIT /\ entries = last.pre.entries
             ELSE /\ last.result # AUTH_ERROR_RATE_LIMIT
                  /\ entries = [last.pre.entries EXCEPT
                                   ![PreEntry].attempt_count = @ + 1,
                                   ![PreEntry].last_attempt = now]

\* a call for a username without an entry has been allowed at a full table
\* in which the first and the last entry are at their maximum
C16_Witness ==
    /\ UntrackedCall
    /\ last.result = AUTH_SUCCESS
    /\ entries[1].attempt_count >= config.max_login_attempts
    /\ entries[RATE_LIMIT_CAPACITY].attempt_count >= config.max_login_attempts
    /\ entries[RATE_LIMIT_CAPACITY].last_attempt = now

(* ------------------------------------------------------------------ *)
(* Over-long input                                                     *)
(* ------------------------------------------------------------------ *)
\* the validate call that has just returned was made on an initialized
\* engine with a username longer than 31 bytes or a password longer than 63
OverLongCall ==
    /\ IsValidate
    /\ last.pre.initialized
    /\ last.a1 # NULLSTR /\ last.a2 # NULLSTR
    /\ (Len(last.a1) > 31 \/ Len(last.a2) > 63)

\* C17: on an initialized engine, validate returns InvalidInput whenever the
\* username is longer than 31 bytes or the password longer than 63 bytes,
\* before the admission check: the call creates no entry and counts no
\* attempt.
C17_OverLongRejected ==
    OverLongCall
        => /\ last.result = AUTH_ERROR_INVALID_INPUT
           /\ last.steps = <<>>
           /\ entries = last.pre.entries

\* a call with a password of 64 bytes for a username that has an entry has
\* been rejected
C17_Witness ==
    /\ OverLongCall
    /\ Len(last.a2) = 64
    /\ Len(last.a1) <= 31
    /\ PreEntry # 0
    /\ last.result = AUTH_ERROR_INVALID_INPUT

(* ------------------------------------------------------------------ *)
(* process_input                                                       *)
(* ------------------------------------------------------------------ *)
\* process_input has just been called on an initialized engine with a
\* non-null input and max_length >= 1, the system allocator not failing
ProcessInputCall ==
    /\ last.op = "auth_process_input"
    /\ last.pre.initialized
    /\ last.a1 # NULLSTR
    /\ last.a2 >= 1
    /\ last.fault = "none"

\* C18: on an initialized engine with a non-null input, process_input
\* returns BufferOverflow exactly when strlen(input) >= max_length and
\* success for every input with strlen(input) < max_length.
C18_ProcessInput ==
    ProcessInputCall
        => last.result = (IF Len(last.a1) >= last.a2
                          THEN AUTH_ERROR_BUFFER_OVERFLOW ELSE AUTH_SUCCESS)

(* ------------------------------------------------------------------ *)
(* Store lookup                                                        *)
(* ------------------------------------------------------------------ *)
\* a lookup in a password file that opened has just returned
IsLookup == last.op = "read_password_file" /\ last.openable

\* C20: the lookup is first-match-wins.  It is decided by the first line
\* whose username field equals the username exactly: the salt and hash of
\* that line when it is well formed, NotFound when it is malformed (whatever
\* lines follow) or when there is no such line; the lines for other
\* usernames before it have no effect.
C20_FirstMatchWins ==
    IsLookup =>
        LET want == SpecRecord(FileLines(last.store), last.a1)
        IN  IF want.found
            THEN /\ last.result = AUTH_SUCCESS
                 /\ last.a2.salt = want.salt
                 /\ last.a2.hash = want.hash
            ELSE last.result = AUTH_ERROR_AUTH_FAILED

\* the lines of the file looked up, and those whose username field is the
\* username looked up
LookedUp == FileLines(last.store)
Matching == {i \in 1..Len(LookedUp) : HasUsername(LookedUp[i], last.a1)}

\* C21: a line whose username field matches yields a record only if the rest
\* of it is exactly ':' salt-hex ':' hash-hex newline in lowercase hex of the
\* fixed lengths; a lookup decided by any other matching line (too short,
\* too long, a non-hex or upper-case digit, another delimiter between salt
\* and hash) returns NotFound.
C21_MalformedAbsent ==
    (/\ IsLookup
     /\ Matching # {}
     /\ ~SpecRecord(LookedUp, last.a1).found)
        => last.result = AUTH_ERROR_AUTH_FAILED

\* a username of 1..31 characters of [A-Za-z0-9_-]
InCharset(u) == Len(u) \in 1..(MAX_USERNAME_LENGTH - 1) /\ ~OutsideCharset(u)

\* line i of the file looked up is a record written for the username looked
\* up, and the only line of the file with that username
OnlyRecord(i) ==
    /\ last.store[i] \in RecordNames
    /\ Written(last.store[i]).username = last.a1
    /\ Matching = {i}

\* C22: round trip.  When the only line of the store for a username of 1..31
\* charset characters is username:hex(salt):hex(hash) newline, the lookup of
\* that username succeeds with the salt and the hash that were written.
C22_RoundTrip ==
    (IsLookup /\ InCharset(last.a1)) =>
        \A i \in 1..Len(last.store) :
            OnlyRecord(i) =>
                /\ last.result = AUTH_SUCCESS
                /\ last.a2.salt = Written(last.store[i]).salt
                /\ last.a2.hash = Written(last.store[i]).hash

(* ------------------------------------------------------------------ *)
(* Secure buffer                                                       *)
(* ------------------------------------------------------------------ *)
\* the sentinels of a block: the four bytes before its region and the four
\* bytes after the size bytes of its region
SentinelBefore(b) == SubSeq(b.bytes, 1, 4)
SentinelAfter(b) == SubSeq(b.bytes, b.size + 5, b.size + 8)
Region(b) == SubSeq(b.bytes, 5, b.size + 4)

IsAcquire == last.op = "secure_malloc"

\* C23: acquire(size) fails exactly when size is zero or exceeds the maximum
\* (allocator failure aside); otherwise the region has exactly size bytes,
\* all zero, with a sentinel immediately before and immediately after it.
C23_Acquire ==
    (IsAcquire /\ last.a2) =>
        /\ (last.result = NULL) <=> (last.a1 = 0 \/ last.a1 > dataSize)
        /\ (last.result # NULL) =>
              /\ heap.st = "live" /\ heap.size = last.a1
              /\ Len(heap.bytes) = last.a1 + 8
              /\ SentinelBefore(heap) = CanaryBytes
              /\ SentinelAfter(heap) = CanaryBytes
              /\ \A k \in 1..heap.size : Region(heap)[k] = 0

\* a release of a live block that read only written bytes of the allocation
IsRelease == last.op = "secure_free" /\ last.a1.st = "live" /\ last.a2

\* C24: release aborts if and only if the sentinel before the region or the
\* one after its size bytes no longer holds the canary value, whatever the
\* region contains.
C24_AbortIffCorrupt ==
    IsRelease =>
        ((last.result = "abort")
            <=> (SentinelBefore(last.a1) # CanaryBytes \/ SentinelAfter(last.a1) # CanaryBytes))

\* C25: a release that completes has overwritten every byte of the region
\* and no byte outside the allocation.
C25_RegionWiped ==
    (IsRelease /\ last.result = "ok") =>
        /\ heap.cleansed >= last.a1.size + 4
        /\ heap.cleansed <= last.a1.size + 8

(* ------------------------------------------------------------------ *)
(* The entries of the rate-limit table                                 *)
(* ------------------------------------------------------------------ *)
\* the usernames of a table
TrackedNames(es) == {es[i].username : i \in 1..Len(es)}

\* a step of an initialized engine, as far as the table goes: at most the
\* capacity, never fewer entries than before, no username twice, and a new
\* entry only for the username of a validate call that reached the rate
\* limiter and was not in the table
TableStep ==
    /\ Len(entries') <= RATE_LIMIT_CAPACITY
    /\ Len(entries') >= Len(entries)
    /\ Cardinality(TrackedNames(entries')) = Len(entries')
    /\ Len(entries') > Len(entries) =>
          /\ Len(entries') = Len(entries) + 1
          /\ last'.op = "auth_validate_user" /\ last'.steps # <<>>
          /\ entries'[Len(entries')].username = last'.a1
          /\ FindEntry(entries, last'.a1, 1) = 0

\* C26: between a successful initialize and the next cleanup the table never
\* holds two entries with the same username, its entry count never exceeds
\* the capacity and never decreases, and an entry is created only by the
\* first tracked call for a username that is not yet in the table.
C26_TableEntries == [][(initialized /\ initialized') => TableStep]_vars

\* a call for an untracked username has just taken the last free entry
C26_Witness ==
    /\ IsValidate
    /\ Len(last.pre.entries) = RATE_LIMIT_CAPACITY - 1
    /\ Len(entries) = RATE_LIMIT_CAPACITY
    /\ entries[RATE_LIMIT_CAPACITY].username = last.a1

(* ------------------------------------------------------------------ *)
(* Rejected calls and the table                                        *)
(* ------------------------------------------------------------------ *)
\* the results of a validate call that was turned away before the store
RejectedResults ==
    {AUTH_ERROR_INITIALIZATION, AUTH_ERROR_NULL_POINTER, AUTH_ERROR_INVALID_INPUT,
     AUTH_ERROR_RATE_LIMIT}

\* C27: a validate call that returns NotInitialized, NullOrMissingInput,
\* InvalidInput or RateLimited leaves the rate-limit table as it was: no
\* entry created, no attempt_count or last_attempt changed.
C27_RejectedLeavesTable ==
    (IsValidate /\ last.result \in RejectedResults) => entries = last.pre.entries

\* a call was throttled, later than the latest counted attempt of its entry
C27_Witness ==
    /\ IsValidate
    /\ last.result = AUTH_ERROR_RATE_LIMIT
    /\ PreEntry # 0
    /\ entries[PreEntry].last_attempt < now

(* ------------------------------------------------------------------ *)
(* Locks of the admission check                                        *)
(* ------------------------------------------------------------------ *)
\* thread t is in a validate call; it holds the table lock; it holds entry lock i
InValidate(t) == pc[t] # "idle" /\ loc[t].op = "validate"
HoldsTable(t) == rate_limit_lock = Mutex("held", t)
HoldsEntry(t, i) == entry_locks[i] = Mutex("held", t)

\* thread t waits for a mutex that another thread holds
Waiting(t) ==
    \/ pc[t] = "lock_table" /\ rate_limit_lock.st = "held"
    \/ /\ pc[t] = "lock_entry" /\ EntryThere(t)
       /\ entry_locks[loc[t].limit].st = "held"

\* an entry lock is only held inside the table lock, a thread that is not in
\* a call holds no lock, and the threads in calls are never all waiting
LockDiscipline ==
    /\ \A t \in Threads : \A i \in 1..Len(entry_locks) :
          HoldsEntry(t, i) => HoldsTable(t)
    /\ \A t \in Threads :
          pc[t] = "idle" =>
              (~HoldsTable(t) /\ \A i \in 1..Len(entry_locks) : ~HoldsEntry(t, i))
    /\ (\E t \in Threads : Waiting(t)) =>
          \E u \in Threads : pc[u] # "idle" /\ ~Waiting(u)

====
